---- MODULE Spec2Model ----
(***************************************************************************)
(* ChainBluffEngine: the commit-reveal deck (CommitRevealDeck), the hand   *)
(* evaluator (HandEvaluator) and the betting engine (PokerGame) of         *)
(* src/src/poker_engine.py, and the regret-matching agent (CFRAgent) of    *)
(* src/src/cfr_strategy.py, as state machines.                             *)
(*                                                                         *)
(* Abstractions.  Strings are sequences of hexadecimal digits (0..15).     *)
(* hashlib.sha256 is a polynomial hash into 0..65520, injective on the     *)
(* seeds the model draws; a hex digest is the one-element sequence holding *)
(* that number.  Python's random (a Mersenne Twister kept in ONE module-   *)
(* level generator) is a linear congruential generator whose state is the  *)
(* variable rng.  Chip amounts are integers (the code's floats hold        *)
(* integer values for integer inputs).                                     *)
(***************************************************************************)
EXTENDS Integers, Sequences, FiniteSets, TLC

VARIABLES
    game,          \* a PokerGame session (its deck is game.deck)
    published,     \* the commitments request_commitment has returned to the caller
    contributed,   \* chips that left the players' stacks during the current hand
    paid,          \* chips credited to players by determine_winner in the current hand
    payouts,       \* how often determine_winner credited a pot in the current hand
    hands,         \* how many hands were started
    acts,          \* how many actions process_action accepted in this session
    acted,         \* HandSpec: the seats whose action was counted in this betting round
    deck,          \* a stand-alone CommitRevealDeck
    decks,         \* the decks of two sessions of the same process
    rng,           \* state of the process-wide generator of module random
    pc,            \* per deck: position inside reveal_and_shuffle
    agent,         \* the process-wide CFRAgent: its regret and strategy tables
    train,         \* a running call of train: its loop counter and the stack of _cfr_traverse
    last           \* the last call: its name, arguments, result, deck methods run

sessionVars == <<game, published, contributed, paid, payouts, hands, acts, acted>>

vars == <<game, published, contributed, paid, payouts, hands, acts, acted, deck, decks, rng, pc, agent, train, last>>

\* ------------------------------------------------------------------ bounds
\* deal_cards is called with counts 0..MaxDeal
MaxDeal == 3

\* at most MaxPlayers seats are added to a session
MaxPlayers == 2

\* at most MaxHands hands are started in a session
MaxHands == 2

\* process_action is accepted at most MaxActs times in a session
MaxActs == 2

\* determine_winner is called at most MaxPayouts times per hand
MaxPayouts == 2

\* ------------------------------------------------------------------ values
\* Python's None where a string is expected
None == <<-1>>

\* secrets.token_hex(32): the secrets the model draws
ServerSeeds == {<<10, 3>>, <<7, 15>>}

\* the state the process-wide generator starts in (seeded from the OS at import)
RngStarts == {0, 4242}

\* the ids of the seats, in the order they are added, and an id no seat has
PlayerIds == <<"p1", "p2", "p3", "p4">>

\* the ids of the seats of game g
SeatIds(g) == {g.players[i].id : i \in DOMAIN g.players}

Stranger == "nobody"

\* the stack each seat is added with, by seat
StartChips == <<40, 15, 25, 20>>

\* the action names of applyAction
Actions == {"fold", "check", "call", "raise", "all_in"}

\* the amounts sent with a raise
Amounts == {-5, 10}

\* the client seeds the caller sends
ClientSeeds == {<<>>, <<11>>}

\* the client seed the hands of a session are started with
HandClientSeeds == {<<>>}

RANKS == <<"2", "3", "4", "5", "6", "7", "8", "9", "T", "J", "Q", "K", "A">>

SUITS == <<"h", "d", "c", "s">>

RANK_VALUES == [r \in {RANKS[i] : i \in DOMAIN RANKS} |->
                  1 + CHOOSE i \in DOMAIN RANKS : RANKS[i] = r]

\* A Card(rank, suit) is the number 4 * (position of rank in RANKS) + (position of
\* suit in SUITS), positions counted from 0: 52 values, one per (rank, suit) pair.
Card(r, s) ==
    Len(SUITS) * ((CHOOSE i \in DOMAIN RANKS : RANKS[i] = r) - 1)
        + ((CHOOSE i \in DOMAIN SUITS : SUITS[i] = s) - 1)

\* card.rank and card.suit
RankOf(card) == RANKS[(card \div Len(SUITS)) + 1]

SuitOf(card) == SUITS[(card % Len(SUITS)) + 1]

\* [Card(r, s) for r in RANKS for s in SUITS]
CanonicalDeck == [i \in 1..(Len(RANKS) * Len(SUITS)) |-> i - 1]

\* ------------------------------------------------------------------ helpers
Min(a, b) == IF a < b THEN a ELSE b

Range(f) == {f[i] : i \in DOMAIN f}

\* ------------------------------------------------------------------ hashing
RECURSIVE PolyHash(_, _)
PolyHash(s, h) ==
    IF s = <<>> THEN h
    ELSE PolyHash(Tail(s), (h * 31 + Head(s) + 1) % 65521)

\* hashlib.sha256(x.encode()).digest(), as a number
SHA256(s) == PolyHash(s, 7)

\* hashlib.sha256(x.encode()).hexdigest()
HexDigest(s) == <<SHA256(s)>>

\* int.from_bytes(seed_hash[:4], 'big'): the leading bytes of the digest
SeedInt(server_seed, client_seed) == SHA256(server_seed \o client_seed) \div 16

\* ------------------------------------------------------------------ random
\* random.seed(n): the generator state after seeding
RandomSeed(n) == (n * 69 + 1) % 65537

\* one draw: the generator's next state
RandomNext(g) == (g * 75 + 74) % 65537

\* the value of randbelow(k) drawn in state g (after stepping to it)
RandBelow(g, k) == g % k

\* a swap that loses x[i]
Swap_mut(x, i, j) == [x EXCEPT ![i] = x[j]]

Swap(x, i, j) == [x EXCEPT ![i] = x[j], ![j] = x[i]]

\* random.shuffle(x): for i in reversed(range(1, len(x))): j = randbelow(i + 1);
\* x[i], x[j] = x[j], x[i].  Positions are 1-based here.  Returns the shuffled
\* list and the generator state left behind.  (The test on x has the list computed
\* at every step of the loop, as the code does.)
RECURSIVE ShuffleFrom(_, _, _)
ShuffleFrom(x, g, i) ==
    IF i < 2 \/ x = <<>> THEN [list |-> x, rng |-> g]
    ELSE LET g1 == RandomNext(g)
             j  == RandBelow(g1, i) + 1
         IN  ShuffleFrom(Swap(x, i, j), g1, i - 1)

RandomShuffle(x, g) == ShuffleFrom(x, g, Len(x))

\* ------------------------------------------------------- CommitRevealDeck
\* CommitRevealDeck.__init__
NewDeck ==
    [server_seed |-> None, client_seed |-> None, deck |-> <<>>, deck_index |-> 0,
     commitment |-> None, is_committed |-> FALSE, is_revealed |-> FALSE]

\* a commitment computed from the seed the deck held before
generate_commitment_mut(d, secret) ==
    [d EXCEPT !.server_seed = secret,
              !.commitment = HexDigest(d.server_seed),
              !.is_committed = TRUE,
              !.is_revealed = FALSE]

generate_commitment(d, secret) ==
    [d EXCEPT !.server_seed = secret,
              !.commitment = HexDigest(secret),
              !.is_committed = TRUE,
              !.is_revealed = FALSE]

get_commitment(d, secret) ==
    IF ~d.is_committed THEN generate_commitment(d, secret) ELSE d

\* the two guards of reveal_and_shuffle: TRUE when it raises ValueError
reveal_raises(d) == ~d.is_committed \/ d.is_revealed

\* a reveal that stores the client seed but leaves the generator as it finds it
reveal_seed_mut(d, client_seed) ==
    [deck |-> [d EXCEPT !.client_seed = client_seed, !.deck = CanonicalDeck],
     rng  |-> rng]

\* reveal_and_shuffle up to and including random.seed(seed_int): the deck with the
\* client seed stored and the fresh canonical list, and the generator reseeded
reveal_seed(d, client_seed) ==
    [deck |-> [d EXCEPT !.client_seed = client_seed, !.deck = CanonicalDeck],
     rng  |-> RandomSeed(SeedInt(d.server_seed, client_seed))]

\* reveal_and_shuffle from random.shuffle(self.deck) on, reading the generator g
reveal_shuffle(d, g) ==
    LET sh == RandomShuffle(d.deck, g)
    IN  [deck |-> [d EXCEPT !.deck = sh.list, !.deck_index = 0, !.is_revealed = TRUE],
         rng  |-> sh.rng]

\* reveal_and_shuffle run without interruption, the generator being g before it
reveal_and_shuffle(d, client_seed, g) ==
    IF reveal_raises(d)
    THEN [deck |-> d, rng |-> g, raised |-> TRUE]
    ELSE LET a == reveal_seed(d, client_seed)
             b == reveal_shuffle(a.deck, a.rng)
         IN  [deck |-> b.deck, rng |-> b.rng, raised |-> FALSE]

verify_commitment(server_seed, claimed_commitment) ==
    HexDigest(server_seed) = claimed_commitment

reset(d) ==
    [d EXCEPT !.server_seed = None, !.client_seed = None, !.deck = <<>>,
              !.deck_index = 0, !.commitment = None,
              !.is_committed = FALSE, !.is_revealed = FALSE]

\* a deal_card that leaves the cursor where it is
deal_card_mut(d) ==
    IF d.deck_index >= Len(d.deck)
    THEN [cards |-> <<>>, deck |-> d]
    ELSE [cards |-> <<d.deck[d.deck_index + 1]>>, deck |-> d]

\* deal_card: the card (or None, as <<>>) and the deck after it
deal_card(d) ==
    IF d.deck_index >= Len(d.deck)
    THEN [cards |-> <<>>, deck |-> d]
    ELSE [cards |-> <<d.deck[d.deck_index + 1]>>,
          deck  |-> [d EXCEPT !.deck_index = d.deck_index + 1]]

\* deal_cards(count): the cards returned and the deck after it
RECURSIVE deal_cards(_, _)
deal_cards(d, count) ==
    IF count <= 0 THEN [cards |-> <<>>, deck |-> d]
    ELSE LET one  == deal_card(d)
             rest == deal_cards(one.deck, count - 1)
         IN  [cards |-> one.cards \o rest.cards, deck |-> rest.deck]

\* verify_fairness: the proof, or a TypeError when a seed is None
verify_fairness(d) ==
    IF d.server_seed = None \/ d.client_seed = None
    THEN [raised |-> TRUE]
    ELSE [raised |-> FALSE,
          server_seed |-> d.server_seed,
          client_seed |-> d.client_seed,
          commitment |-> d.commitment,
          combined_hash |-> HexDigest(d.server_seed \o d.client_seed)]

\* ------------------------------------------------------------ HandEvaluator
\* Python's list order: a > b, element by element, a proper prefix being smaller
RECURSIVE ListGreater(_, _)
ListGreater(a, b) ==
    IF a = <<>> THEN FALSE
    ELSE IF b = <<>> THEN TRUE
    ELSE IF Head(a) # Head(b) THEN Head(a) > Head(b)
    ELSE ListGreater(Tail(a), Tail(b))

\* the list x inserted into the descending list of lists s
RECURSIVE InsertDesc(_, _)
InsertDesc(x, s) ==
    IF s = <<>> THEN <<x>>
    ELSE IF ListGreater(Head(s), x) THEN <<Head(s)>> \o InsertDesc(x, Tail(s))
    ELSE <<x>> \o s

\* sorted(s, reverse=True) for a list of lists
RECURSIVE SortedDesc(_)
SortedDesc(s) ==
    IF s = <<>> THEN <<>> ELSE InsertDesc(Head(s), SortedDesc(Tail(s)))

\* sorted(S, reverse=True) for a set of lists
RECURSIVE SetSortedDesc(_)
SetSortedDesc(S) ==
    IF S = {} THEN <<>>
    ELSE LET x == CHOOSE y \in S : TRUE
         IN  InsertDesc(x, SetSortedDesc(S \ {x}))

\* the first components of a list of lists
Firsts(t) == [i \in DOMAIN t |-> t[i][1]]

\* sorted(s, reverse=True) for a list of integers
SortedIntsDesc(s) == Firsts(SortedDesc([i \in DOMAIN s |-> <<s[i]>>]))

\* sorted(set(ranks), reverse=True)
UniqueDesc(ranks) == Firsts(SetSortedDesc({<<ranks[i]>> : i \in DOMAIN ranks}))

\* itertools.combinations(range(start, n + 1), k), in its (lexicographic) order
RECURSIVE Combinations(_, _, _)
Combinations(start, n, k) ==
    IF k = 0 THEN << <<>> >>
    ELSE IF start > n THEN <<>>
    ELSE LET with == Combinations(start + 1, n, k - 1)
         IN  [i \in 1..Len(with) |-> <<start>> \o with[i]]
             \o Combinations(start + 1, n, k)

\* _is_straight once unique is computed
StraightOf(unique) ==
    IF Len(unique) # 5 THEN FALSE
    ELSE IF unique[1] - unique[5] = 4 THEN TRUE
    ELSE unique = <<14, 5, 4, 3, 2>>

_is_straight(ranks) == StraightOf(UniqueDesc(ranks))

HandResult(rank, name, kickers) == [rank |-> rank, name |-> name, kickers |-> kickers]

\* _evaluate_five_cards: ranks, the card ranks in descending order
RanksOf(cards) ==
    SortedIntsDesc([i \in DOMAIN cards |-> RANK_VALUES[RankOf(cards[i])]])

\* _evaluate_five_cards: is_flush
IsFlush(cards) == Cardinality({SuitOf(cards[i]) : i \in DOMAIN cards}) = 1

\* a wheel whose ace keeps its value 14
WheelRanks_mut(ranks, is_straight) == ranks

\* _evaluate_five_cards: the ace of a wheel counts as 1
WheelRanks(ranks, is_straight) ==
    IF is_straight /\ ranks = <<14, 5, 4, 3, 2>> THEN <<5, 4, 3, 2, 1>> ELSE ranks

\* _evaluate_five_cards: the pairs (count, rank) by descending count, then rank
ByCount(ranks) ==
    SetSortedDesc({<<Cardinality({i \in DOMAIN ranks : ranks[i] = r}), r>> :
                      r \in {ranks[i] : i \in DOMAIN ranks}})

\* _evaluate_five_cards: the chain of tests, counts and sorted_ranks read off by_count
NameHand(ranks, is_flush, is_straight, by_count) ==
    LET counts == Firsts(by_count)
        sorted_ranks == [i \in DOMAIN by_count |-> by_count[i][2]]
    IN  IF is_straight /\ is_flush
        THEN IF ranks[1] = 14 /\ ranks[2] = 13
             THEN HandResult(9, "royal_flush", ranks)
             ELSE HandResult(8, "straight_flush", ranks)
        ELSE IF counts = <<4, 1>> THEN HandResult(7, "four_of_a_kind", sorted_ranks)
        ELSE IF counts = <<3, 2>> THEN HandResult(6, "full_house", sorted_ranks)
        ELSE IF is_flush THEN HandResult(5, "flush", ranks)
        ELSE IF is_straight THEN HandResult(4, "straight", ranks)
        ELSE IF counts = <<3, 1, 1>> THEN HandResult(3, "three_of_a_kind", sorted_ranks)
        ELSE IF counts = <<2, 2, 1>> THEN HandResult(2, "two_pair", sorted_ranks)
        ELSE IF counts = <<2, 1, 1, 1>> THEN HandResult(1, "pair", sorted_ranks)
        ELSE HandResult(0, "high_card", ranks)

\* _evaluate_five_cards from the wheel adjustment on
ClassifyHand(ranks, is_flush, is_straight) ==
    NameHand(ranks, is_flush, is_straight, ByCount(ranks))

\* _evaluate_five_cards from is_straight on
EvaluateRanks(ranks, is_flush, is_straight) ==
    ClassifyHand(WheelRanks(ranks, is_straight), is_flush, is_straight)

\* _evaluate_five_cards once ranks and is_flush are computed
EvaluateSorted(ranks, is_flush) ==
    EvaluateRanks(ranks, is_flush, _is_straight(ranks))

_evaluate_five_cards(cards) == EvaluateSorted(RanksOf(cards), IsFlush(cards))

\* hand_rank > best_rank or (hand_rank == best_rank and kickers > best_kickers)
Better(h, best) ==
    \/ h.rank > best.rank
    \/ (h.rank = best.rank /\ ListGreater(h.kickers, best.kickers))

\* a loop body that keeps whichever combination was evaluated last
PickBetter_mut(h, best) == h

\* the body of the loop of evaluate_hand
PickBetter(h, best) == IF Better(h, best) THEN h ELSE best

\* the loop of evaluate_hand over the combinations from position i on
RECURSIVE BestOfCombos(_, _, _, _)
BestOfCombos(cards, combos, i, best) ==
    IF i > Len(combos) THEN best
    ELSE BestOfCombos(cards, combos, i + 1,
             PickBetter(_evaluate_five_cards([k \in 1..5 |-> cards[combos[i][k]]]),
                        best))

evaluate_hand(cards) ==
    IF Len(cards) < 5
    THEN [rank |-> 0, name |-> "high_card",
          kickers |-> IF cards # <<>> THEN <<RANK_VALUES[RankOf(cards[1])]>> ELSE <<0>>]
    ELSE BestOfCombos(cards, Combinations(1, Len(cards), 5), 1,
                      [rank |-> -1, name |-> "high_card", kickers |-> <<>>])

\* a kicker comparison that reports 1 at the first difference, whichever is larger
ZipCompare_mut(kickers1, kickers2) ==
    IF \E i \in 1..Min(Len(kickers1), Len(kickers2)) : kickers1[i] # kickers2[i]
    THEN 1
    ELSE 0

\* compare_hands: for k1, k2 in zip(kickers1, kickers2)
RECURSIVE ZipCompare(_, _)
ZipCompare(kickers1, kickers2) ==
    IF kickers1 = <<>> \/ kickers2 = <<>> THEN 0
    ELSE IF Head(kickers1) # Head(kickers2)
    THEN (IF Head(kickers1) > Head(kickers2) THEN 1 ELSE -1)
    ELSE ZipCompare(Tail(kickers1), Tail(kickers2))

\* compare_hands once both hands are evaluated
CompareEvaluated(h1, h2) ==
    IF h1.rank # h2.rank
    THEN (IF h1.rank > h2.rank THEN 1 ELSE -1)
    ELSE ZipCompare(h1.kickers, h2.kickers)

compare_hands(hand1, hand2) ==
    CompareEvaluated(evaluate_hand(hand1), evaluate_hand(hand2))

\* ---------------------------------------------------------------- PokerGame
\* Player(id=player_id, name=name, chips=chips)
NewPlayer(player_id, chips) ==
    [id |-> player_id, chips |-> chips, hole_cards |-> <<>>, current_bet |-> 0,
     is_folded |-> FALSE, is_all_in |-> FALSE]

STAGES == <<"preflop", "flop", "turn", "river", "showdown">>

\* PokerGame.__init__.  Indices into players are 0-based, as in the code.
NewGame ==
    [deck |-> NewDeck, players |-> <<>>, community_cards |-> <<>>, pot |-> 0,
     current_bet |-> 0, stage |-> "preflop", current_player_index |-> 0,
     dealer_index |-> 0, small_blind |-> 5, big_blind |-> 10,
     actions_this_round |-> 0, last_raise_amount |-> 0]

add_player(g, player_id, chips) ==
    [g EXCEPT !.players = Append(@, NewPlayer(player_id, chips))]

\* one deck method run by a handler, and the deck's flags after it
Step(op, d) == [op |-> op, is_committed |-> d.is_committed, is_revealed |-> d.is_revealed]

\* request_commitment: the game after it, the value returned, the deck methods run
request_commitment(g, secret) ==
    LET d1 == reset(g.deck)
        d2 == generate_commitment(d1, secret)
    IN  [game |-> [g EXCEPT !.deck = d2],
         commitment |-> d2.commitment,
         path |-> <<Step("reset", d1), Step("generate_commitment", d2)>>]

\* start_hand, lines 273-278: the deck brought to the committed state
ensure_commitment(d, secret) ==
    LET a == IF d.is_revealed
             THEN [deck |-> generate_commitment(reset(d), secret),
                   path |-> <<Step("reset", reset(d)),
                              Step("generate_commitment",
                                   generate_commitment(reset(d), secret))>>]
             ELSE [deck |-> d, path |-> <<>>]
    IN  IF ~a.deck.is_committed
        THEN [deck |-> generate_commitment(a.deck, secret),
              path |-> a.path \o <<Step("generate_commitment",
                                        generate_commitment(a.deck, secret))>>]
        ELSE a

\* a bet that leaves the player's stack and never reaches the pot
_make_bet_pot_mut(g, player_index, amount) ==
    LET player == g.players[player_index + 1]
        actual_bet == Min(amount, player.chips)
        chips == player.chips - actual_bet
    IN  [g EXCEPT !.players[player_index + 1] =
                      [@ EXCEPT !.chips = chips,
                                !.current_bet = @ + actual_bet,
                                !.is_all_in = IF chips = 0 THEN TRUE ELSE @],
                  !.pot = @ + amount]

_make_bet_mut(g, player_index, amount) ==
    LET player == g.players[player_index + 1]
        actual_bet == Min(amount, player.chips)
        chips == player.chips - actual_bet
    IN  [g EXCEPT !.players[player_index + 1] =
                      [@ EXCEPT !.chips = chips,
                                !.current_bet = @ + actual_bet,
                                !.is_all_in = IF chips = 0 THEN TRUE ELSE @]]

_make_bet(g, player_index, amount) ==
    LET player == g.players[player_index + 1]
        actual_bet == Min(amount, player.chips)
        chips == player.chips - actual_bet
    IN  [g EXCEPT !.players[player_index + 1] =
                      [@ EXCEPT !.chips = chips,
                                !.current_bet = @ + actual_bet,
                                !.is_all_in = IF chips = 0 THEN TRUE ELSE @],
                  !.pot = @ + actual_bet]

_post_blinds(g) ==
    IF Len(g.players) >= 2
    THEN LET sb_index == (g.dealer_index + 1) % Len(g.players)
             bb_index == (g.dealer_index + 2) % Len(g.players)
             g1 == _make_bet(g, sb_index, g.small_blind)
             g2 == _make_bet(g1, bb_index, g.big_blind)
         IN  [g2 EXCEPT !.current_bet = g.big_blind,
                        !.current_player_index = (bb_index + 1) % Len(g.players)]
    ELSE g

\* hole cards dealt to every player from the same cursor position
DealHoleCards_mut(g, i) ==
    [g EXCEPT !.players = [k \in DOMAIN @ |->
                              [@[k] EXCEPT !.hole_cards = deal_cards(g.deck, 2).cards]]]

\* for player in self.players: player.hole_cards = self.deck.deal_cards(2)
RECURSIVE DealHoleCards(_, _)
DealHoleCards(g, i) ==
    IF i > Len(g.players) THEN g
    ELSE LET r == deal_cards(g.deck, 2)
         IN  DealHoleCards([g EXCEPT !.players[i].hole_cards = r.cards,
                                     !.deck = r.deck], i + 1)

\* start_hand with the process generator in state gen: the game and generator
\* after it, whether reveal_and_shuffle raised, and the deck methods run
start_hand(g, client_seed, secret, gen) ==
    LET c  == ensure_commitment(g.deck, secret)
        rv == reveal_and_shuffle(c.deck, client_seed, gen)
        g1 == [g EXCEPT !.deck = rv.deck,
                        !.community_cards = <<>>,
                        !.pot = 0,
                        !.current_bet = 0,
                        !.stage = "preflop",
                        !.actions_this_round = 0,
                        !.players = [i \in DOMAIN @ |->
                                        [@[i] EXCEPT !.hole_cards = <<>>,
                                                     !.current_bet = 0,
                                                     !.is_folded = FALSE,
                                                     !.is_all_in = FALSE]]]
        g2 == DealHoleCards(g1, 1)
        path == c.path \o <<Step("reveal_and_shuffle", rv.deck)>>
    IN  IF rv.raised
        THEN [game |-> [g EXCEPT !.deck = rv.deck], rng |-> rv.rng,
              raised |-> TRUE, path |-> path]
        ELSE [game |-> _post_blinds(g2), rng |-> rv.rng, raised |-> FALSE,
              path |-> path \o [i \in DOMAIN g.players |-> Step("deal_cards", g2.deck)]]

\* a lookup that falls back to the first seat when no player has this id
FindPlayer_mut(g, player_id) ==
    IF \E i \in DOMAIN g.players : g.players[i].id = player_id
    THEN (CHOOSE i \in DOMAIN g.players : g.players[i].id = player_id) - 1
    ELSE 0

\* the 0-based index of the first player with this id, -1 when there is none
FindPlayer(g, player_id) ==
    IF \E i \in DOMAIN g.players : g.players[i].id = player_id
    THEN (CHOOSE i \in DOMAIN g.players :
              /\ g.players[i].id = player_id
              /\ \A j \in 1..(i - 1) : g.players[j].id # player_id) - 1
    ELSE -1

\* the loop of _move_to_next_player, k iterations left
RECURSIVE NextPlayerLoop(_, _)
NextPlayerLoop(g, k) ==
    IF k = 0 THEN [g EXCEPT !.current_player_index = 0]
    ELSE LET idx == (g.current_player_index + 1) % Len(g.players)
             next_player == g.players[idx + 1]
             g1 == [g EXCEPT !.current_player_index = idx]
         IN  IF ~next_player.is_folded /\ ~next_player.is_all_in
             THEN g1
             ELSE NextPlayerLoop(g1, k - 1)

_move_to_next_player(g) == NextPlayerLoop(g, Len(g.players))

_reset_action_to_first_player(g) ==
    IF \E i \in DOMAIN g.players : ~g.players[i].is_folded /\ ~g.players[i].is_all_in
    THEN [g EXCEPT !.current_player_index =
             (CHOOSE i \in DOMAIN g.players :
                 /\ ~g.players[i].is_folded /\ ~g.players[i].is_all_in
                 /\ \A j \in 1..(i - 1) :
                        g.players[j].is_folded \/ g.players[j].is_all_in) - 1]
    ELSE [g EXCEPT !.current_player_index = 0]

StageIndex(stage) == (CHOOSE i \in DOMAIN STAGES : STAGES[i] = stage) - 1

\* _next_stage stepping round the stage list: from river back to preflop
_next_stage_mut(g) ==
    LET stage_index == StageIndex(g.stage)
    IN  IF stage_index < Len(STAGES) - 1
        THEN LET stage == STAGES[((stage_index + 1) % (Len(STAGES) - 1)) + 1]
                 r  == deal_cards(g.deck, 1)
             IN  [g EXCEPT !.stage = stage,
                           !.players = [i \in DOMAIN @ |->
                                           [@[i] EXCEPT !.current_bet = 0]],
                           !.current_bet = 0,
                           !.actions_this_round = 0,
                           !.community_cards = @ \o r.cards,
                           !.deck = r.deck]
        ELSE g

_next_stage(g) ==
    LET stage_index == StageIndex(g.stage)
    IN  IF stage_index < Len(STAGES) - 1
        THEN LET stage == STAGES[stage_index + 2]
                 count == IF stage = "flop" THEN 3
                          ELSE IF stage \in {"turn", "river"} THEN 1 ELSE 0
                 r  == deal_cards(g.deck, count)
                 g1 == [g EXCEPT !.stage = stage,
                                 !.players = [i \in DOMAIN @ |->
                                                 [@[i] EXCEPT !.current_bet = 0]],
                                 !.current_bet = 0,
                                 !.actions_this_round = 0,
                                 !.community_cards = @ \o r.cards,
                                 !.deck = r.deck]
             IN  IF stage # "showdown" THEN _reset_action_to_first_player(g1) ELSE g1
        ELSE g

NotFolded(g) == {i \in DOMAIN g.players : ~g.players[i].is_folded}

\* _advance_game without the jump to showdown when one player is left
_advance_game_mut(g) ==
    IF /\ \A i \in DOMAIN g.players :
              \/ g.players[i].current_bet = g.current_bet
              \/ g.players[i].is_all_in
              \/ g.players[i].is_folded
       /\ g.actions_this_round >= Cardinality(NotFolded(g))
    THEN _next_stage(g)
    ELSE g

_advance_game(g) ==
    IF Cardinality(NotFolded(g)) = 1
    THEN [g EXCEPT !.stage = "showdown"]
    ELSE LET betting_complete ==
                 /\ \A i \in DOMAIN g.players :
                        \/ g.players[i].current_bet = g.current_bet
                        \/ g.players[i].is_all_in
                        \/ g.players[i].is_folded
                 /\ g.actions_this_round >= Cardinality(NotFolded(g))
         IN  IF betting_complete THEN _next_stage(g) ELSE g

\* process_action: the game after it, whether it returned an error, and the game
\* as it stood when _advance_game was called (line 358)
process_action(g, player_id, action, amount) ==
    LET player_index == FindPlayer(g, player_id)
        player == g.players[player_index + 1]
        call_amount == g.current_bet - player.current_bet
        raised == _make_bet(g, player_index, call_amount + amount)
        allin == _make_bet(g, player_index, player.chips)
        Counted(g1) == _move_to_next_player([g1 EXCEPT !.actions_this_round = @ + 1])
        Done(g1) == [game |-> _advance_game(Counted(g1)), error |-> FALSE,
                     before |-> Counted(g1)]
    IN  IF player_index = -1 \/ player.is_folded
        THEN [game |-> g, error |-> TRUE, before |-> g]
        ELSE IF action = "fold"
        THEN Done([g EXCEPT !.players[player_index + 1].is_folded = TRUE])
        ELSE IF action = "check"
        THEN IF player.current_bet < g.current_bet
             THEN [game |-> g, error |-> TRUE, before |-> g]
             ELSE Done(g)
        ELSE IF action = "call"
        THEN Done(_make_bet(g, player_index, call_amount))
        ELSE IF action = "raise"
        THEN Done([raised EXCEPT
                      !.current_bet = raised.players[player_index + 1].current_bet,
                      !.last_raise_amount = amount])
        ELSE IF action = "all_in"
        THEN Done(IF allin.players[player_index + 1].current_bet > g.current_bet
                  THEN [allin EXCEPT
                           !.current_bet = allin.players[player_index + 1].current_bet]
                  ELSE allin)
        ELSE Done(g)

\* the body of the loop of determine_winner for the player at this seat
\* a loop body that keeps whichever player was evaluated last
PickBetterSeat_mut(seat, h, best) ==
    [seat |-> seat, rank |-> h.rank, name |-> h.name, kickers |-> h.kickers]

PickBetterSeat(seat, h, best) ==
    IF Better(h, best)
    THEN [seat |-> seat, rank |-> h.rank, name |-> h.name, kickers |-> h.kickers]
    ELSE best

\* the loop of determine_winner over active (a list of 1-based seats) from position k
RECURSIVE BestPlayerLoop(_, _, _, _)
BestPlayerLoop(g, active, k, best) ==
    IF k > Len(active) THEN best
    ELSE BestPlayerLoop(g, active, k + 1,
             PickBetterSeat(active[k],
                 evaluate_hand(g.players[active[k]].hole_cards \o g.community_cards),
                 best))

\* the non-folded seats (1-based), in seat order
ActiveSeats(g) ==
    LET s == SetSortedDesc({<<0 - i>> : i \in NotFolded(g)})
    IN  [k \in DOMAIN s |-> 0 - s[k][1]]

\* best_player.chips += self.pot
Credit(g, seat) == [g EXCEPT !.players[seat].chips = @ + g.pot]

\* determine_winner after its loop: the pot is credited, then verify_fairness runs
ShowdownResult(g, seat, name, fairness) ==
    [game |-> Credit(g, seat), winner |-> seat, hand_rank |-> name, pot |-> g.pot,
     proof |-> ~fairness.raised, raised |-> fairness.raised]

\* determine_winner from "if best_player is None" on
Showdown(g, active, best) ==
    IF best.seat = 0
    THEN ShowdownResult(g, active[1], "high card", verify_fairness(g.deck))
    ELSE ShowdownResult(g, best.seat, best.name, verify_fairness(g.deck))

\* determine_winner evaluating hands also when one player is left
Payout_mut(g, active) ==
    IF Len(active) = 0
    THEN [game |-> g, winner |-> 0, hand_rank |-> "no active players",
          pot |-> g.pot, proof |-> FALSE, raised |-> FALSE]
    ELSE Showdown(g, active, BestPlayerLoop(g, active, 1,
                      [seat |-> 0, rank |-> -1, name |-> "", kickers |-> <<>>]))

\* determine_winner once active_players is computed
Payout(g, active) ==
    IF Len(active) = 0
    THEN [game |-> g, winner |-> 0, hand_rank |-> "no active players",
          pot |-> g.pot, proof |-> FALSE, raised |-> FALSE]
    ELSE IF Len(active) = 1
    THEN [game |-> Credit(g, active[1]), winner |-> active[1],
          hand_rank |-> "opponent folded", pot |-> g.pot,
          proof |-> FALSE, raised |-> FALSE]
    ELSE Showdown(g, active, BestPlayerLoop(g, active, 1,
                      [seat |-> 0, rank |-> -1, name |-> "", kickers |-> <<>>]))

\* determine_winner: the game after it and the result returned; winner is the
\* winning seat (1-based, 0 for no winner), proof tells whether a fairness proof
\* is attached, raised tells that verify_fairness raised after the pot was credited
determine_winner(g) == Payout(g, ActiveSeats(g))

\* ------------------------------------------------------------------ CFRAgent
\* src/src/cfr_strategy.py.  A numpy vector of probabilities is a vector of exact
\* fractions here: the numerators num over the one denominator den.  Regret and
\* strategy sums are integers.  A dict is a function whose domain is its keys.

\* CFRAgent.ACTIONS (ACTIONS is a reserved word)
CFR_ACTIONS == <<"fold", "check", "call", "raise_half", "raise_pot", "all_in">>

NUM_ACTIONS == 6

\* np.zeros(n) and np.ones(n)
Zeros(n) == [i \in 1..n |-> 0]

Ones(n) == [i \in 1..n |-> 1]

RECURSIVE SumTo(_, _)
SumTo(v, n) == IF n = 0 THEN 0 ELSE v[n] + SumTo(v, n - 1)

\* np.sum(v)
NpSum(v) == SumTo(v, Len(v))

NpMaximum0_mut(v) == v

\* np.maximum(v, 0)
NpMaximum0(v) == [i \in 1..Len(v) |-> IF v[i] > 0 THEN v[i] ELSE 0]

\* the vector v / d
Over(v, d) == [num |-> v, den |-> d]

\* np.ones(NUM_ACTIONS) / NUM_ACTIONS
Uniform == Over(Ones(NUM_ACTIONS), NUM_ACTIONS)

\* d[k] = v on a dict
DictSet(d, k, v) == [x \in (DOMAIN d) \cup {k} |-> IF x = k THEN v ELSE d[x]]

\* CFRAgent(load_from_db=False): empty tables
NewAgent == [regret_sum |-> [k \in {} |-> <<>>], strategy_sum |-> [k \in {} |-> <<>>],
             iterations_run |-> 0]

\* the agent once get_strategy has made sure info_set has its rows
WithRows(a, info_set) ==
    IF info_set \in DOMAIN a.regret_sum
    THEN a
    ELSE [a EXCEPT !.regret_sum = DictSet(a.regret_sum, info_set, Zeros(NUM_ACTIONS)),
                   !.strategy_sum = DictSet(a.strategy_sum, info_set, Zeros(NUM_ACTIONS))]

\* regret matching on the vector of positive regrets
Matched(positive_regrets, normalizing_sum) ==
    IF normalizing_sum > 0
    THEN Over(positive_regrets, normalizing_sum)
    ELSE Uniform

\* get_strategy: the agent after the call and the strategy returned
get_strategy(a, info_set) ==
    [agent |-> WithRows(a, info_set),
     strategy |-> Matched(NpMaximum0(WithRows(a, info_set).regret_sum[info_set]),
                          NpSum(NpMaximum0(WithRows(a, info_set).regret_sum[info_set])))]

get_average_strategy(a, info_set) ==
    IF info_set \notin DOMAIN a.strategy_sum
    THEN Uniform
    ELSE IF NpSum(a.strategy_sum[info_set]) > 0
    THEN Over(a.strategy_sum[info_set], NpSum(a.strategy_sum[info_set]))
    ELSE Uniform

\* x in l, on a list
InList(x, l) == \E i \in 1..Len(l) : l[i] = x

\* action.replace('_half', '_small').replace('_pot', '_big') on the names of ACTIONS
BaseAction(action) ==
    CASE action = "raise_half" -> "raise_small"
      [] action = "raise_pot" -> "raise_big"
      [] OTHER -> action

\* 'raise' in a, on the action names the model passes
HasRaise(a) == a \in {"raise", "raise_half", "raise_pot", "raise_small", "raise_big"}

\* the action_mask get_action builds in its loop over ACTIONS (the three tests
\* for check, call and fold repeat the membership test of the first line)
ActionMask(available_actions) ==
    [i \in 1..NUM_ACTIONS |->
        IF \/ InList(CFR_ACTIONS[i], available_actions)
           \/ InList(BaseAction(CFR_ACTIONS[i]), available_actions)
           \/ /\ HasRaise(CFR_ACTIONS[i])
              /\ \E j \in 1..Len(available_actions) : HasRaise(available_actions[j])
        THEN 1 ELSE 0]

\* the mask after the replacement of an all-zero mask
FinalMask(action_mask) ==
    IF NpSum(action_mask) = 0 THEN Ones(NUM_ACTIONS) ELSE action_mask

\* strategy * action_mask, normalised, or the mask normalised when that is all zero
Masked(strategy, action_mask) ==
    IF NpSum([i \in 1..NUM_ACTIONS |-> strategy.num[i] * action_mask[i]]) > 0
    THEN Over([i \in 1..NUM_ACTIONS |-> strategy.num[i] * action_mask[i]],
              NpSum([i \in 1..NUM_ACTIONS |-> strategy.num[i] * action_mask[i]]))
    ELSE Over(action_mask, NpSum(action_mask))

\* the vector p get_action hands to np.random.choice
ChoiceWeights(strategy, available_actions) ==
    IF Len(available_actions) = 0
    THEN strategy
    ELSE Masked(strategy, FinalMask(ActionMask(available_actions)))

\* np.random.choice(NUM_ACTIONS, p=p): the indices it can return
RandomChoice(p) == {i \in 1..NUM_ACTIONS : p.num[i] > 0}

\* get_action with action_index drawn: the pair returned, and the p of the draw
get_action(a, info_set, available_actions, action_index) ==
    [action |-> CFR_ACTIONS[action_index],
     probability |-> Over(get_average_strategy(a, info_set).num[action_index],
                          get_average_strategy(a, info_set).den),
     p |-> ChoiceWeights(get_average_strategy(a, info_set), available_actions)]

\* ------------------------------------------------- CFRAgent: train, traversal
\* The numbers a traversal computes (node values, regrets, strategy sums) do not
\* steer it and are left out: a frame of _cfr_traverse keeps its arguments pot
\* (in 1/256 chip), betting_history, player_to_act and depth, and the index
\* a_idx of the action its loop is at.  A history is a sequence of tokens.

\* the literals of the first test of _cfr_traverse
MaxDepth == 10

MaxHistory == 8

\* initial_pot = 30.0, in 1/256 chip
InitialPot == 30 * 256

TooLong_mut(betting_history, depth) == depth > MaxDepth

\* depth > 10 or len(betting_history) > 8
TooLong(betting_history, depth) ==
    depth > MaxDepth \/ Len(betting_history) > MaxHistory

\* betting_history.count(token)
TokenCount(betting_history, token) ==
    Cardinality({i \in 1..Len(betting_history) : betting_history[i] = token})

\* betting_history.endswith(token)
EndsWith(betting_history, token) ==
    Len(betting_history) > 0 /\ betting_history[Len(betting_history)] = token

\* 'f' in betting_history and betting_history.endswith('f')
EndsInFold(betting_history) ==
    InList("f", betting_history) /\ EndsWith(betting_history, "f")

\* betting_history.count('c') >= 2 or betting_history.endswith('cc')
CallsClose(betting_history) ==
    \/ TokenCount(betting_history, "c") >= 2
    \/ /\ Len(betting_history) >= 2
       /\ betting_history[Len(betting_history) - 1] = "c"
       /\ EndsWith(betting_history, "c")

\* the three tests after which _cfr_traverse returns without expanding
ReturnsAtOnce(betting_history, depth) ==
    \/ TooLong(betting_history, depth)
    \/ EndsInFold(betting_history)
    \/ CallsClose(betting_history)

\* new_history for an action other than fold
NewHistory(betting_history, action) ==
    Append(betting_history,
           CASE action \in {"check", "call"} -> "c"
             [] action = "raise_half" -> "r"
             [] action = "raise_pot" -> "R"
             [] OTHER -> "A")

\* new_pot
NewPot(pot, action) ==
    CASE action = "raise_half" -> pot + (pot \div 2)
      [] action = "raise_pot" -> pot + pot
      [] action = "all_in" -> pot + (2 * pot)
      [] OTHER -> pot

\* the frame of a call of _cfr_traverse that expands its node
Frame(pot, betting_history, player_to_act, depth) ==
    [pot |-> pot, betting_history |-> betting_history,
     player_to_act |-> player_to_act, depth |-> depth, a_idx |-> 1]

\* the frame of the recursive call the loop makes for an action of frame f
ChildFrame(f, action) ==
    Frame(NewPot(f.pot, action), NewHistory(f.betting_history, action),
          1 - f.player_to_act, f.depth + 1)

\* no train call is running
NoTrain == [iterations |-> 0, i |-> 0, stack |-> <<>>, pc |-> "idle"]

\* --------------------------------------------- a stand-alone deck: DeckSpec
\* the record of a call: its name and result; for deal_cards the count asked, the
\* cursor before and the cards returned; for a PokerGame method the deck methods it
\* ran (path) and what it returned
Call(op, result) ==
    [op |-> op, result |-> result, n |-> 0, index |-> 0, cards |-> <<>>,
     path |-> <<>>, commitment |-> None, winner |-> 0, hand_rank |-> "",
     kickers |-> <<>>, other |-> <<>>, proof |-> FALSE,
     info_set |-> "", available |-> <<>>, strategy |-> <<>>, action |-> "",
     probability |-> <<>>, before |-> <<>>]

DeckInit ==
    /\ game = NewGame
    /\ published = {}
    /\ contributed = 0
    /\ paid = 0
    /\ payouts = 0
    /\ hands = 0
    /\ acts = 0
    /\ acted = {}
    /\ deck = NewDeck
    /\ decks = <<NewDeck, NewDeck>>
    /\ rng \in RngStarts
    /\ pc = <<"idle", "idle">>
    /\ agent = NewAgent
    /\ train = NoTrain
    /\ last = Call("init", "ok")

DeckGenerateCommitment ==
    \E secret \in ServerSeeds :
        /\ deck' = generate_commitment(deck, secret)
        /\ last' = [Call("generate_commitment", "ok") EXCEPT
                        !.commitment = generate_commitment(deck, secret).commitment]
        /\ UNCHANGED <<sessionVars, decks, rng, pc, agent, train>>

DeckGetCommitment ==
    \E secret \in ServerSeeds :
        /\ deck' = get_commitment(deck, secret)
        /\ last' = Call("get_commitment", "ok")
        /\ UNCHANGED <<sessionVars, decks, rng, pc, agent, train>>

DeckReveal ==
    \E client_seed \in ClientSeeds :
        LET r == reveal_and_shuffle(deck, client_seed, rng)
        IN  /\ deck' = r.deck
            /\ rng' = r.rng
            /\ last' = Call("reveal_and_shuffle", IF r.raised THEN "ValueError" ELSE "ok")
            /\ UNCHANGED <<sessionVars, decks, pc, agent, train>>

DeckReset ==
    /\ deck' = reset(deck)
    /\ last' = Call("reset", "ok")
    /\ UNCHANGED <<sessionVars, decks, rng, pc, agent, train>>

DeckDeal ==
    \E count \in 0..MaxDeal :
        LET r == deal_cards(deck, count)
        IN  /\ deck' = r.deck
            /\ last' = [Call("deal_cards", "ok") EXCEPT
                            !.n = count, !.index = deck.deck_index, !.cards = r.cards]
            /\ UNCHANGED <<sessionVars, decks, rng, pc, agent, train>>

DeckNext ==
    \/ DeckGenerateCommitment
    \/ DeckGetCommitment
    \/ DeckReveal
    \/ DeckReset
    \/ DeckDeal

DeckSpec == DeckInit /\ [][DeckNext]_vars


\* ------------------------------------------------- a PokerGame session: Spec
\* The public methods of PokerGame, called in any order.
SumChips(g) ==
    LET RECURSIVE Sum(_)
        Sum(i) == IF i = 0 THEN 0 ELSE g.players[i].chips + Sum(i - 1)
    IN  Sum(Len(g.players))

Init == DeckInit /\ rng = 0

AddPlayer ==
    LET seat == Len(game.players) + 1
    IN  /\ seat <= MaxPlayers
        /\ game' = add_player(game, PlayerIds[seat], StartChips[seat])
        /\ last' = Call("add_player", "ok")
        /\ UNCHANGED <<published, contributed, paid, payouts, hands, acts, acted, deck, decks,
                       rng, pc, agent, train>>

RequestCommitment ==
    \E secret \in ServerSeeds :
        \E r \in {request_commitment(game, secret)} :
            /\ game' = r.game
            /\ published' = published \cup {r.commitment}
            /\ last' = [Call("request_commitment", "ok") EXCEPT
                            !.path = r.path, !.commitment = r.commitment]
            /\ UNCHANGED <<contributed, paid, payouts, hands, acts, acted, deck, decks, rng, pc, agent, train>>

StartHand ==
    /\ hands < MaxHands
    /\ \E client_seed \in HandClientSeeds, secret \in ServerSeeds :
        \E r \in {start_hand(game, client_seed, secret, rng)} :
            /\ game' = r.game
            /\ rng' = r.rng
            /\ hands' = hands + 1
            /\ contributed' = IF r.raised THEN contributed
                              ELSE SumChips(game) - SumChips(r.game)
            /\ paid' = IF r.raised THEN paid ELSE 0
            /\ payouts' = IF r.raised THEN payouts ELSE 0
            /\ last' = [Call("start_hand", IF r.raised THEN "ValueError" ELSE "ok")
                            EXCEPT !.path = r.path, !.commitment = r.game.deck.commitment]
            /\ UNCHANGED <<published, acts, acted, deck, decks, pc, agent, train>>

ProcessAction ==
    /\ acts < MaxActs
    /\ \E player_id \in SeatIds(game) \cup {Stranger}, action \in Actions :
        \E amount \in IF action = "raise" THEN Amounts ELSE {0} :
            \E r \in {process_action(game, player_id, action, amount)} :
                /\ game' = r.game
                /\ acts' = IF r.error THEN acts ELSE acts + 1
                /\ contributed' = contributed + (SumChips(game) - SumChips(r.game))
                /\ last' = [Call("process_action", IF r.error THEN "error" ELSE "ok")
                                EXCEPT !.path = IF r.game.deck # game.deck
                                                THEN <<Step("deal_cards", r.game.deck)>>
                                                ELSE <<>>]
                /\ UNCHANGED <<published, paid, payouts, hands, acted, deck, decks, rng, pc, agent, train>>

DetermineWinner ==
    /\ game.stage = "showdown"
    /\ payouts < MaxPayouts
    /\ \E r \in {determine_winner(game)} :
        /\ game' = r.game
        /\ paid' = paid + (SumChips(r.game) - SumChips(game))
        /\ payouts' = IF r.winner # 0 THEN payouts + 1 ELSE payouts
        /\ last' = [Call("determine_winner", IF r.raised THEN "TypeError" ELSE "ok")
                        EXCEPT !.winner = r.winner, !.hand_rank = r.hand_rank,
                               !.n = r.pot, !.proof = r.proof,
                               !.path = IF r.proof \/ r.raised
                                        THEN <<Step("verify_fairness", game.deck)>>
                                        ELSE <<>>]
        /\ UNCHANGED <<published, contributed, hands, acts, acted, deck, decks, rng, pc, agent, train>>

Next == AddPlayer \/ RequestCommitment \/ StartHand \/ ProcessAction \/ DetermineWinner

Spec == Init /\ [][Next]_vars

\* ------------------------------------------------------------ Spec claims
\* C1: start_hand on a game whose deck is not committed fails: it reveals and
\* shuffles no deck, deals no cards and posts no blinds.
C1_StartHandRequiresCommitment ==
    [][(last'.op = "start_hand" /\ ~game.deck.is_committed) =>
           /\ last'.result # "ok"
           /\ ~game'.deck.is_revealed
           /\ game'.players = game.players
           /\ game'.pot = game.pot]_vars

\* C2: for every hand, the commitment the deck is revealed under was returned to
\* the caller by request_commitment before start_hand received the client seed,
\* and start_hand generates no server seed in the step that consumes the client
\* seed.  Stated for the calls handle_start_hand lets through (is_committed set).
C2_RevealUnderPublishedCommitment ==
    [][(last'.op = "start_hand" /\ last'.result = "ok" /\ game.deck.is_committed) =>
           /\ game'.deck.commitment \in published
           /\ game'.deck.server_seed = game.deck.server_seed
           /\ \A k \in DOMAIN last'.path : last'.path[k].op # "generate_commitment"]_vars

\* C4: committing while the deck is committed and not yet revealed returns the
\* existing commitment and leaves server_seed and commitment unchanged.
C4_CommitIdempotent ==
    [][(last'.op = "request_commitment" /\ game.deck.is_committed
                                        /\ ~game.deck.is_revealed) =>
           /\ last'.commitment = game.deck.commitment
           /\ game'.deck.commitment = game.deck.commitment
           /\ game'.deck.server_seed = game.deck.server_seed]_vars

\* C10: in every reachable state of a session, pot equals the chips moved from the
\* players into the pot during the current hand minus the payouts credited from it.
C10_PotIsContributedMinusPaid ==
    game.pot = contributed - paid

\* C11: in every reachable state, whatever start_hand and process_action calls
\* were made with whatever action and amount, every player's chips and
\* current_bet, the table current_bet and the pot are all >= 0.
C11_NonNegative ==
    /\ \A i \in DOMAIN game.players :
           game.players[i].chips >= 0 /\ game.players[i].current_bet >= 0
    /\ game.current_bet >= 0
    /\ game.pot >= 0


\* ------------------------------------------------------------ claim helpers
\* the card order the two seeds determine: what an auditor recomputes
OrderOf(server_seed, client_seed) ==
    RandomShuffle(CanonicalDeck, RandomSeed(SeedInt(server_seed, client_seed))).list

\* ------------------------------------------------------------ DeckSpec claims
\* the lifecycle state the two flags encode
Lifecycle(d) ==
    IF d.is_revealed THEN "Revealed"
    ELSE IF d.is_committed THEN "Committed" ELSE "Uninitialized"

\* C3: the flags only move Uninitialized -> Committed -> Revealed -> (reset) ->
\* Uninitialized; reveal_and_shuffle raises, changing nothing, when the deck is not
\* committed or is already revealed, and reveals otherwise; is_revealed implies
\* is_committed in every reachable state; reset clears seeds, commitment, deck,
\* cursor and both flags.
C3_DeckLifecycle ==
    /\ [](deck.is_revealed => deck.is_committed)
    /\ [][ /\ Lifecycle(deck') # Lifecycle(deck) =>
                  \/ /\ Lifecycle(deck) = "Uninitialized"
                     /\ Lifecycle(deck') = "Committed"
                     /\ last'.op \in {"generate_commitment", "get_commitment"}
                  \/ /\ Lifecycle(deck) = "Committed"
                     /\ Lifecycle(deck') = "Revealed"
                     /\ last'.op = "reveal_and_shuffle"
                  \/ /\ Lifecycle(deck') = "Uninitialized"
                     /\ last'.op = "reset"
           /\ last'.op = "reveal_and_shuffle" =>
                  IF ~deck.is_committed \/ deck.is_revealed
                  THEN last'.result = "ValueError" /\ deck' = deck
                  ELSE last'.result = "ok" /\ Lifecycle(deck') = "Revealed"
           /\ last'.op = "reset" =>
                  /\ deck'.server_seed = None /\ deck'.client_seed = None
                  /\ deck'.commitment = None /\ deck'.deck = <<>>
                  /\ deck'.deck_index = 0
                  /\ ~deck'.is_committed /\ ~deck'.is_revealed
       ]_vars

\* C5: in every reachable state where the deck is revealed, the deck is a
\* permutation of the 52 canonical cards: length 52, no duplicates, no omissions.
C5_RevealedDeckIsPermutation ==
    deck.is_revealed =>
        /\ Len(deck.deck) = Len(RANKS) * Len(SUITS)
        /\ Range(deck.deck) = Range(CanonicalDeck)
        /\ \A i, j \in DOMAIN deck.deck : deck.deck[i] = deck.deck[j] => i = j

C5_Witness ==
    /\ deck.is_revealed
    /\ deck.deck # CanonicalDeck
    /\ deck.deck_index > 0

\* C8: deal_cards(n) returns exactly the next min(n, remaining) cards in deck order
\* from the cursor, advances the cursor by the number returned and never raises,
\* also on an exhausted or unrevealed deck.
C8_DealContract ==
    last.op = "deal_cards" =>
        LET k == Min(last.n, Len(deck.deck) - last.index)
        IN  /\ last.result = "ok"
            /\ last.cards = SubSeq(deck.deck, last.index + 1, last.index + k)
            /\ Len(last.cards) = k
            /\ deck.deck_index = last.index + k

C8_Witness ==
    /\ last.op = "deal_cards"
    /\ deck.is_revealed
    /\ Len(last.cards) > 0
    /\ Len(last.cards) < last.n
    /\ deck.deck_index = Len(deck.deck)

\* C9: verify_commitment(s, c) holds exactly when c = hash(s); in every reachable
\* state where the deck is revealed the fairness proof's commitment verifies against
\* its server seed, and the order recomputed from its combined_hash is the deck's.
C9_FairnessProofVerifies ==
    /\ \A s \in ServerSeeds :
           verify_commitment(s, deck.commitment) <=> (deck.commitment = HexDigest(s))
    /\ deck.is_revealed =>
           LET proof == verify_fairness(deck)
           IN  /\ ~proof.raised
               /\ verify_commitment(proof.server_seed, proof.commitment)
               /\ \A s \in ServerSeeds \ {proof.server_seed} :
                      ~verify_commitment(s, proof.commitment)
               /\ proof.combined_hash = HexDigest(proof.server_seed \o proof.client_seed)
               /\ deck.deck = RandomShuffle(CanonicalDeck,
                                  RandomSeed(proof.combined_hash[1] \div 16)).list

C9_Witness ==
    /\ deck.is_revealed
    /\ deck.client_seed # <<>>
    /\ deck.deck_index > 0
    /\ last.op = "deal_cards"

\* ----------------------------------- two decks of one process, calls in turn: PairSpec
\* Every call runs to completion before the next starts (one handler at a time).
Sessions == {1, 2}

PairInit == DeckInit /\ rng = 0

PairGetCommitment(i) ==
    \E secret \in ServerSeeds :
        /\ decks' = [decks EXCEPT ![i] = get_commitment(decks[i], secret)]
        /\ last' = Call("get_commitment", "ok")
        /\ UNCHANGED <<sessionVars, deck, rng, pc, agent, train>>

PairReveal(i) ==
    \E client_seed \in ClientSeeds :
        LET r == reveal_and_shuffle(decks[i], client_seed, rng)
        IN  /\ decks' = [decks EXCEPT ![i] = r.deck]
            /\ rng' = r.rng
            /\ last' = Call("reveal_and_shuffle", IF r.raised THEN "ValueError" ELSE "ok")
            /\ UNCHANGED <<sessionVars, deck, pc, agent, train>>

PairReset(i) ==
    /\ decks' = [decks EXCEPT ![i] = reset(decks[i])]
    /\ last' = Call("reset", "ok")
    /\ UNCHANGED <<sessionVars, deck, rng, pc, agent, train>>

PairDeal(i) ==
    LET r == deal_cards(decks[i], MaxDeal)
    IN  /\ decks[i].deck_index < 2 * MaxDeal
        /\ decks' = [decks EXCEPT ![i] = r.deck]
        /\ last' = [Call("deal_cards", "ok") EXCEPT
                        !.n = MaxDeal, !.index = decks[i].deck_index, !.cards = r.cards]
        /\ UNCHANGED <<sessionVars, deck, rng, pc, agent, train>>

PairNext ==
    \E i \in Sessions :
        PairGetCommitment(i) \/ PairReveal(i) \/ PairReset(i) \/ PairDeal(i)

PairSpec == PairInit /\ [][PairNext]_vars

\* C6: two reveals with the same server_seed and the same client_seed produce the
\* same card order, whatever was revealed or dealt before on either deck.
C6_RevealDeterministic ==
    ( /\ decks[1].is_revealed /\ decks[2].is_revealed
      /\ decks[1].server_seed = decks[2].server_seed
      /\ decks[1].client_seed = decks[2].client_seed )
    => decks[1].deck = decks[2].deck

C6_Witness ==
    /\ decks[1].is_revealed /\ decks[2].is_revealed
    /\ decks[1].server_seed = decks[2].server_seed
    /\ decks[1].client_seed = decks[2].client_seed
    /\ decks[1].deck_index # decks[2].deck_index
    /\ rng \notin RngStarts

\* ------------------------------ two sessions whose reveals interleave: ConcSpec
\* Sessions run in parallel threads.  reveal_and_shuffle is two steps for the
\* process-wide generator: random.seed(seed_int), then random.shuffle(self.deck).
ConcInit == DeckInit /\ rng = 0

ConcGetCommitment(i) ==
    /\ pc[i] = "idle"
    /\ PairGetCommitment(i)

ConcReset(i) ==
    /\ pc[i] = "idle"
    /\ PairReset(i)

\* reveal_and_shuffle, lines 79-92
ConcRevealSeed(i) ==
    \E client_seed \in ClientSeeds :
        /\ pc[i] = "idle"
        /\ IF reveal_raises(decks[i])
           THEN /\ last' = Call("reveal_and_shuffle", "ValueError")
                /\ UNCHANGED <<sessionVars, deck, decks, rng, pc, agent, train>>
           ELSE LET a == reveal_seed(decks[i], client_seed)
                IN  /\ decks' = [decks EXCEPT ![i] = a.deck]
                    /\ rng' = a.rng
                    /\ pc' = [pc EXCEPT ![i] = "seeded"]
                    /\ last' = Call("random.seed", "ok")
                    /\ UNCHANGED <<sessionVars, deck, agent, train>>

\* reveal_and_shuffle, lines 93-97
ConcRevealShuffle(i) ==
    /\ pc[i] = "seeded"
    /\ LET b == reveal_shuffle(decks[i], rng)
       IN  /\ decks' = [decks EXCEPT ![i] = b.deck]
           /\ rng' = b.rng
    /\ pc' = [pc EXCEPT ![i] = "idle"]
    /\ last' = Call("reveal_and_shuffle", "ok")
    /\ UNCHANGED <<sessionVars, deck, agent, train>>

ConcNext ==
    \E i \in Sessions :
        \/ ConcGetCommitment(i)
        \/ ConcReset(i)
        \/ ConcRevealSeed(i)
        \/ ConcRevealShuffle(i)

ConcSpec == ConcInit /\ [][ConcNext]_vars

\* C7: when the reveals of two sessions interleave, each session's card order is
\* still the one its own (server_seed, client_seed) determines.
C7_OrderIsOwnSeeds ==
    \A i \in Sessions :
        (pc[i] = "idle" /\ decks[i].is_revealed) =>
            decks[i].deck = OrderOf(decks[i].server_seed, decks[i].client_seed)

\* --------------------------------------------------- one dealt hand: HandSpec
\* A session in which the seats were added, request_commitment was called and
\* start_hand has just dealt a hand; then process_action is called by any
\* caller for any seat (the code has no turn check) and determine_winner is
\* called at showdown, as handle_bet_action does.

\* a hand is played by 2..MaxSeats seats
MaxSeats == 3

\* at most MaxHandActs actions are accepted in a hand of two seats,
\* MaxHandActs3 in a hand of three
MaxHandActs == 8

MaxHandActs3 == 5

\* determine_winner pays at most MaxHandPayouts times in the hand
MaxHandPayouts == 1

\* the (server_seed, client_seed) pairs the hands are dealt from; the second
\* deals the first two seats the same best hand (queens with A, K, J)
HandSeeds == {<<<<10, 3>>, <<>>>>, <<<<3, 3>>, <<11>>>>}

\* the raise amounts callers send during the hand
HandAmounts == {10}

RECURSIVE AddSeats(_, _)
AddSeats(g, n) ==
    IF Len(g.players) >= n THEN g
    ELSE AddSeats(add_player(g, PlayerIds[Len(g.players) + 1],
                             StartChips[Len(g.players) + 1]), n)

\* add_player n times, request_commitment, start_hand
HandDeal(n, secret, client_seed) ==
    start_hand(request_commitment(AddSeats(NewGame, n), secret).game,
               client_seed, secret, 0)

HandInit ==
    \E n \in 2..MaxSeats, seeds \in HandSeeds :
        \E r \in {HandDeal(n, seeds[1], seeds[2])} :
            /\ game = r.game
            /\ published = {r.game.deck.commitment}
            /\ contributed = r.game.pot
            /\ paid = 0
            /\ payouts = 0
            /\ hands = 1
            /\ acts = 0
            /\ acted = {}
            /\ deck = NewDeck
            /\ decks = <<NewDeck, NewDeck>>
            /\ rng = r.rng
            /\ pc = <<"idle", "idle">>
            /\ agent = NewAgent
            /\ train = NoTrain
            /\ last = [Call("start_hand", "ok") EXCEPT
                           !.path = r.path, !.commitment = r.game.deck.commitment]

\* process_action for any seat or a stranger; last.index is the seat that
\* acted (0 for none), acted the seats counted in the round now open
HandAction ==
    /\ acts < (IF Len(game.players) = 2 THEN MaxHandActs ELSE MaxHandActs3)
    /\ \E player_id \in SeatIds(game) \cup {Stranger}, action \in Actions :
        \E amount \in IF action = "raise" THEN HandAmounts ELSE {0} :
            \E r \in {process_action(game, player_id, action, amount)} :
                /\ game' = r.game
                /\ acts' = IF r.error THEN acts ELSE acts + 1
                /\ acted' = IF r.error THEN acted
                            ELSE IF r.game.stage # game.stage THEN {}
                            ELSE acted \cup {FindPlayer(game, player_id) + 1}
                /\ contributed' = contributed + (SumChips(game) - SumChips(r.game))
                /\ last' = [Call("process_action", IF r.error THEN "error" ELSE "ok")
                                EXCEPT !.index = FindPlayer(game, player_id) + 1,
                                       !.path = IF r.game.deck # game.deck
                                                THEN <<Step("deal_cards", r.game.deck)>>
                                                ELSE <<>>]
                /\ UNCHANGED <<published, paid, payouts, hands, deck, decks, rng, pc, agent, train>>

HandShowdown ==
    /\ game.stage = "showdown"
    /\ payouts < MaxHandPayouts
    /\ \E r \in {determine_winner(game)} :
        /\ game' = r.game
        /\ paid' = paid + (SumChips(r.game) - SumChips(game))
        /\ payouts' = IF r.winner # 0 THEN payouts + 1 ELSE payouts
        /\ last' = [Call("determine_winner", IF r.raised THEN "TypeError" ELSE "ok")
                        EXCEPT !.winner = r.winner, !.hand_rank = r.hand_rank,
                               !.n = r.pot, !.proof = r.proof,
                               !.path = IF r.proof \/ r.raised
                                        THEN <<Step("verify_fairness", game.deck)>>
                                        ELSE <<>>]
        /\ UNCHANGED <<published, contributed, hands, acts, acted, deck, decks, rng, pc, agent, train>>

HandNext == HandAction \/ HandShowdown

HandSpec == HandInit /\ [][HandNext]_vars

\* ------------------------------------------------------------ HandSpec claims
\* C12: within one hand the stage only moves forward through preflop, flop,
\* turn, river, showdown, never backward, and once the stage is showdown no
\* process_action call changes it.
C12_StageOnlyForward ==
    [][/\ StageIndex(game'.stage) >= StageIndex(game.stage)
       /\ (last'.op = "process_action" /\ game.stage = "showdown") =>
              game'.stage = "showdown"]_vars

\* an action was accepted at showdown, after the pot was paid
C12_Witness ==
    /\ last.op = "process_action"
    /\ last.result = "ok"
    /\ game.stage = "showdown"
    /\ payouts = 1

\* C13: process_action returns an error when the player id is unknown, when the
\* player has folded, or when the action is check while the player's bet is
\* below the table bet; then nothing of the session (pot, table bet, stage,
\* action counter, seat-to-act, players, community cards, deck) changes.
C13_ErrorsChangeNothing ==
    \A player_id \in SeatIds(game) \cup {Stranger}, action \in Actions :
        \A amount \in IF action = "raise" THEN HandAmounts ELSE {0} :
            (\/ player_id \notin SeatIds(game)
             \/ \E i \in DOMAIN game.players :
                    /\ game.players[i].id = player_id
                    /\ \/ game.players[i].is_folded
                       \/ /\ action = "check"
                          /\ game.players[i].current_bet < game.current_bet)
            => /\ process_action(game, player_id, action, amount).error
               /\ process_action(game, player_id, action, amount).game = game

\* a call for a folded seat was turned down while another seat's bet was
\* below the table bet
C13_Witness ==
    /\ last.op = "process_action"
    /\ last.result = "error"
    /\ last.index # 0
    /\ game.players[last.index].is_folded
    /\ game.stage # "showdown"
    /\ \E i \in DOMAIN game.players :
           ~game.players[i].is_folded /\ game.players[i].current_bet < game.current_bet

\* C14: after a valid action that leaves at least two non-folded players, the
\* betting round ends (the stage advances by one) if and only if every player is
\* folded, all-in or has current_bet equal to the table current_bet and the
\* round's action counter is at least the number of non-folded players; so no
\* round closes before each non-folded player has had an action counted in it.
C14_RoundEndsWhenAllActed ==
    [][/\ \A player_id \in SeatIds(game), action \in Actions :
              \A amount \in IF action = "raise" THEN HandAmounts ELSE {0} :
                  \A r \in {process_action(game, player_id, action, amount)} :
                      (/\ ~r.error
                       /\ game.stage # "showdown"
                       /\ Cardinality(NotFolded(r.before)) >= 2)
                      => (r.game.stage = STAGES[StageIndex(game.stage) + 2]
                          <=> /\ \A i \in DOMAIN r.before.players :
                                     \/ r.before.players[i].is_folded
                                     \/ r.before.players[i].is_all_in
                                     \/ r.before.players[i].current_bet
                                            = r.before.current_bet
                              /\ r.before.actions_this_round
                                     >= Cardinality(NotFolded(r.before)))
       /\ (/\ last'.op = "process_action"
           /\ last'.result = "ok"
           /\ Cardinality(NotFolded(game')) >= 2
           /\ StageIndex(game'.stage) = StageIndex(game.stage) + 1)
          => NotFolded(game') \subseteq acted \cup {last'.index}]_vars

\* C15: whenever a valid action leaves exactly one non-folded player, the stage
\* is showdown immediately after that action, from any stage, whether or not
\* the bets are matched or the action counter has reached the player count.
C15_LastPlayerGoesToShowdown ==
    [][(/\ last'.op = "process_action"
        /\ last'.result = "ok"
        /\ Cardinality(NotFolded(game')) = 1)
       => game'.stage = "showdown"]_vars

\* the first action of a hand left one player, whose bet is below the table bet
C15_Witness ==
    /\ last.op = "process_action"
    /\ last.result = "ok"
    /\ Cardinality(NotFolded(game)) = 1
    /\ game.stage = "showdown"
    /\ game.community_cards = <<>>
    /\ game.actions_this_round = 1
    /\ \E i \in NotFolded(game) : game.players[i].current_bet < game.current_bet

\* C16: when exactly one non-folded player remains, determine_winner credits the
\* entire pot to that player, labels the result 'opponent folded' and evaluates
\* no hand (the result carries no hand category and no fairness proof); after one
\* seat folds pre-flop in a two-seat hand the other seat gains the full pot.
C16_UncontestedPot ==
    [][(last'.op = "determine_winner" /\ Cardinality(NotFolded(game)) = 1) =>
           /\ last'.winner \in NotFolded(game)
           /\ game'.players[last'.winner].chips
                  = game.players[last'.winner].chips + game.pot
           /\ \A i \in DOMAIN game.players :
                  i # last'.winner => game'.players[i] = game.players[i]
           /\ last'.n = game.pot
           /\ last'.hand_rank = "opponent folded"
           /\ ~last'.proof
           /\ last'.path = <<>>]_vars

\* one seat of a two-seat hand folded pre-flop and the other was paid the blinds
C16_Witness ==
    /\ last.op = "determine_winner"
    /\ last.hand_rank = "opponent folded"
    /\ Len(game.players) = 2
    /\ game.community_cards = <<>>
    /\ acts = 1
    /\ last.n = 15
    /\ paid = 15

RECURSIVE HoleCardsFrom(_, _)
HoleCardsFrom(g, i) ==
    IF i > Len(g.players) THEN <<>>
    ELSE g.players[i].hole_cards \o HoleCardsFrom(g, i + 1)

DealtCards(g) == HoleCardsFrom(g, 1) \o g.community_cards

\* C19: within one hand no card is dealt twice: in every state after start_hand
\* the players' hole cards and the community cards are pairwise distinct cards
\* of the revealed deck (2 + 2 hole cards and 5 community cards are 9 cards).
C19_NoCardDealtTwice ==
    /\ game.deck.is_revealed
    /\ \A i \in DOMAIN game.players : Len(game.players[i].hole_cards) = 2
    /\ \A dealt \in {DealtCards(game)} :
           /\ \A i, j \in DOMAIN dealt : i # j => dealt[i] # dealt[j]
           /\ \A i \in DOMAIN dealt :
                  \E k \in 1..game.deck.deck_index : game.deck.deck[k] = dealt[i]

\* two seats at the river: 2 + 2 + 5 cards, nine different ones
C19_Witness ==
    /\ Len(game.players) = 2
    /\ Len(game.community_cards) = 5
    /\ Cardinality(Range(DealtCards(game))) = 9

\* ------------------------------------------- a scripted two-seat hand: ScriptSpec
\* Two seats, blinds 5/10; after start_hand the seat-to-act sends the actions of
\* Script one after the other.  acts is the position in the script.
Script == <<"call", "call", "check", "check", "check", "check", "check", "check">>

\* the stacks the two seats sit down with (each covers the big blind)
ScriptStacks == {10, 15, 40}

ScriptDeal(chips1, chips2, secret, client_seed) ==
    start_hand(request_commitment(
                   add_player(add_player(NewGame, PlayerIds[1], chips1),
                              PlayerIds[2], chips2), secret).game,
               client_seed, secret, 0)

ScriptInit ==
    \E chips1 \in ScriptStacks, chips2 \in ScriptStacks, seeds \in HandSeeds :
        \E r \in {ScriptDeal(chips1, chips2, seeds[1], seeds[2])} :
            /\ game = r.game
            /\ published = {r.game.deck.commitment}
            /\ contributed = r.game.pot
            /\ paid = 0
            /\ payouts = 0
            /\ hands = 1
            /\ acts = 0
            /\ acted = {}
            /\ deck = NewDeck
            /\ decks = <<NewDeck, NewDeck>>
            /\ rng = r.rng
            /\ pc = <<"idle", "idle">>
            /\ agent = NewAgent
            /\ train = NoTrain
            /\ last = [Call("start_hand", "ok") EXCEPT
                           !.path = r.path, !.commitment = r.game.deck.commitment]

\* the seat-to-act sends the next action of the script
ScriptStep ==
    /\ acts < Len(Script)
    /\ \E r \in {process_action(game, game.players[game.current_player_index + 1].id,
                                 Script[acts + 1], 0)} :
        /\ game' = r.game
        /\ acts' = IF r.error THEN acts ELSE acts + 1
        /\ contributed' = contributed + (SumChips(game) - SumChips(r.game))
        /\ last' = [Call("process_action", IF r.error THEN "error" ELSE "ok")
                        EXCEPT !.index = game.current_player_index + 1]
        /\ UNCHANGED <<published, paid, payouts, hands, acted, deck, decks, rng, pc, agent, train>>

ScriptNext == ScriptStep

ScriptSpec == ScriptInit /\ [][ScriptNext]_vars

\* C18: in a two-seat hand with blinds 5/10 where the seat-to-act sends call,
\* call, check, check, check, check, check, check, every action is accepted, the
\* stage passes through flop, turn and river and is showdown after the eighth
\* action, and the pot is then the chips the two seats contributed, 20.
C18_ScriptReachesShowdown ==
    /\ last.op = "process_action" => last.result = "ok"
    /\ game.stage = STAGES[(acts \div 2) + 1]
    /\ Len(game.community_cards) = (IF acts < 2 THEN 0 ELSE Min((acts \div 2) + 2, 5))
    /\ acts = Len(Script) =>
           /\ game.stage = "showdown"
           /\ game.pot = 20
           /\ game.pot = contributed

\* the eighth action of the script was accepted
C18_Witness ==
    /\ acts = Len(Script)
    /\ last.op = "process_action"
    /\ last.result = "ok"
    /\ game.stage = "showdown"
    /\ game.pot = 20

\* ----------------------------------------------- the hand evaluator: EvalSpec
\* HandEvaluator.evaluate_hand called on a hand of 5 to 7 distinct cards.
\* last.cards is the hand; after the call last.n, last.hand_rank and
\* last.kickers are the tuple returned.

\* the cards the hands are made of: a royal flush and a wheel in hearts, four
\* aces and two kings; their hands cover all ten categories
EvalCards ==
    <<Card("2", "h"), Card("3", "h"), Card("4", "h"), Card("5", "h"),
      Card("T", "h"), Card("J", "h"), Card("Q", "h"), Card("K", "h"),
      Card("K", "d"), Card("A", "h"), Card("A", "d"), Card("A", "c"),
      Card("A", "s")>>

\* the cards of the list at the positions in S, in list order: one of the
\* combinations of itertools.combinations
RECURSIVE PickFrom(_, _, _)
PickFrom(cards, S, i) ==
    IF i > Len(cards) THEN <<>>
    ELSE (IF i \in S THEN <<cards[i]>> ELSE <<>>) \o PickFrom(cards, S, i + 1)

\* the index sets of the k-card sub-lists of a list of n cards
IndexSets(n, k) == {S \in SUBSET (1..n) : Cardinality(S) = k}

EvalHands ==
    {PickFrom(EvalCards, S, 1) :
        S \in IndexSets(Len(EvalCards), 5) \cup IndexSets(Len(EvalCards), 6)
                 \cup IndexSets(Len(EvalCards), 7)}

EvalInit ==
    /\ game = NewGame
    /\ published = {}
    /\ contributed = 0
    /\ paid = 0
    /\ payouts = 0
    /\ hands = 0
    /\ acts = 0
    /\ acted = {}
    /\ deck = NewDeck
    /\ decks = <<NewDeck, NewDeck>>
    /\ rng = 0
    /\ pc = <<"idle", "idle">>
    /\ agent = NewAgent
    /\ train = NoTrain
    /\ \E cards \in EvalHands : last = [Call("init", "ok") EXCEPT !.cards = cards]

Evaluate ==
    /\ last.op = "init"
    /\ \E r \in {evaluate_hand(last.cards)} :
        last' = [Call("evaluate_hand", "ok") EXCEPT
                     !.cards = last.cards, !.n = r.rank, !.hand_rank = r.name,
                     !.kickers = r.kickers]
    /\ UNCHANGED <<sessionVars, deck, decks, rng, pc, agent, train>>

EvalNext == Evaluate

EvalSpec == EvalInit /\ [][EvalNext]_vars

\* C20: for every hand of 5 to 7 distinct cards, evaluate_hand returns the
\* maximum, in the lexicographic order of (category, kickers compared element by
\* element), of the 5-card ranking over all 5-card subsets of the hand.
C20_BestOfAllFiveCardSubsets ==
    last.op = "evaluate_hand" =>
        /\ \E S \in IndexSets(Len(last.cards), 5) :
               _evaluate_five_cards(PickFrom(last.cards, S, 1))
                   = [rank |-> last.n, name |-> last.hand_rank,
                      kickers |-> last.kickers]
        /\ \A S \in IndexSets(Len(last.cards), 5) :
               \A h \in {_evaluate_five_cards(PickFrom(last.cards, S, 1))} :
                   /\ h.rank <= last.n
                   /\ h.rank = last.n => ~ListGreater(h.kickers, last.kickers)

\* a seven-card hand whose best five cards are not its first five
C20_Witness ==
    /\ last.op = "evaluate_hand"
    /\ Len(last.cards) = 7
    /\ last.hand_rank = "four_of_a_kind"
    /\ last.kickers = <<14, 13>>
    /\ _evaluate_five_cards(SubSeq(last.cards, 1, 5)).rank < last.n

\* HAND_RANKS: the category names by number
HAND_RANKS ==
    <<"high_card", "pair", "two_pair", "three_of_a_kind", "straight", "flush",
      "full_house", "four_of_a_kind", "straight_flush", "royal_flush">>

\* how many of the five cards have rank value v
CountOf(five, v) ==
    Cardinality({i \in DOMAIN five : RANK_VALUES[RankOf(five[i])] = v})

\* the category of five cards by the poker definitions, highest first
Category5(five) ==
    LET values   == {RANK_VALUES[RankOf(five[i])] : i \in DOMAIN five}
        flush    == \A i, j \in DOMAIN five : SuitOf(five[i]) = SuitOf(five[j])
        straight == /\ Cardinality(values) = 5
                    /\ \/ \E low \in 2..10 : values = low..(low + 4)
                       \/ values = {14, 2, 3, 4, 5}
        pairs    == {v \in values : CountOf(five, v) = 2}
    IN  IF straight /\ flush THEN (IF values = 10..14 THEN 9 ELSE 8)
        ELSE IF \E v \in values : CountOf(five, v) = 4 THEN 7
        ELSE IF (\E v \in values : CountOf(five, v) = 3) /\ pairs # {} THEN 6
        ELSE IF flush THEN 5
        ELSE IF straight THEN 4
        ELSE IF \E v \in values : CountOf(five, v) = 3 THEN 3
        ELSE IF Cardinality(pairs) = 2 THEN 2
        ELSE IF Cardinality(pairs) = 1 THEN 1
        ELSE 0

\* C22: the category returned for a hand of 5 to 7 cards is in 0..9 and follows
\* the precedence straight flush > four of a kind > full house > flush >
\* straight > three of a kind > two pair > pair > high card: it is the highest
\* category any five of the cards make.  A, 5, 4, 3, 2 ranks as a straight with
\* kickers 5, 4, 3, 2, 1 and so loses to a 6-high straight.
C22_CategoryPrecedence ==
    last.op = "evaluate_hand" =>
        /\ last.n \in 0..9
        /\ last.hand_rank = HAND_RANKS[last.n + 1]
        /\ \E S \in IndexSets(Len(last.cards), 5) :
               Category5(PickFrom(last.cards, S, 1)) = last.n
        /\ \A S \in IndexSets(Len(last.cards), 5) :
               Category5(PickFrom(last.cards, S, 1)) <= last.n
        /\ (/\ last.n = 4
            /\ \A S \in IndexSets(Len(last.cards), 5) :
                   Category5(PickFrom(last.cards, S, 1)) = 4 =>
                       {RANK_VALUES[RankOf(c)] : c \in Range(PickFrom(last.cards, S, 1))}
                           = {14, 2, 3, 4, 5})
           => /\ last.kickers = <<5, 4, 3, 2, 1>>
              /\ compare_hands(last.cards,
                               <<Card("6", "d"), Card("5", "h"), Card("4", "h"),
                                 Card("3", "h"), Card("2", "h")>>) = -1

\* a seven-card hand whose best five cards are the wheel A, 5, 4, 3, 2
C22_Witness ==
    /\ last.op = "evaluate_hand"
    /\ Len(last.cards) = 7
    /\ last.n = 4
    /\ last.kickers = <<5, 4, 3, 2, 1>>

\* --------------------------------------------- comparing two hands: CompareSpec
\* HandEvaluator.compare_hands called on two hands of 5 to 7 cards: last.cards
\* and last.other are the hands, last.n the number returned.

\* the cards the compared hands are made of: 2h 3h 4h 5h Kh Kd Ah Ad
CompareCards == PickFrom(EvalCards, {1, 2, 3, 4, 8, 9, 10, 11}, 1)

CompareHands ==
    {PickFrom(CompareCards, S, 1) :
        S \in IndexSets(Len(CompareCards), 5) \cup IndexSets(Len(CompareCards), 6)
                 \cup IndexSets(Len(CompareCards), 7)}

CompareInit ==
    /\ game = NewGame
    /\ published = {}
    /\ contributed = 0
    /\ paid = 0
    /\ payouts = 0
    /\ hands = 0
    /\ acts = 0
    /\ acted = {}
    /\ deck = NewDeck
    /\ decks = <<NewDeck, NewDeck>>
    /\ rng = 0
    /\ pc = <<"idle", "idle">>
    /\ agent = NewAgent
    /\ train = NoTrain
    /\ \E hand1 \in CompareHands, hand2 \in CompareHands :
           last = [Call("init", "ok") EXCEPT !.cards = hand1, !.other = hand2]

Compare ==
    /\ last.op = "init"
    /\ last' = [Call("compare_hands", "ok") EXCEPT
                    !.cards = last.cards, !.other = last.other,
                    !.n = compare_hands(last.cards, last.other)]
    /\ UNCHANGED <<sessionVars, deck, decks, rng, pc, agent, train>>

CompareNext == Compare

CompareSpec == CompareInit /\ [][CompareNext]_vars

\* C21: for all hands a, b of 5 to 7 cards, compare_hands(a, b) is
\* -compare_hands(b, a), compare_hands(a, a) is 0, and every result is one of
\* -1, 0, 1.
C21_CompareAntisymmetric ==
    last.op = "compare_hands" =>
        /\ last.n \in {-1, 0, 1}
        /\ last.n = 0 - compare_hands(last.other, last.cards)
        /\ compare_hands(last.cards, last.cards) = 0
        /\ last.cards = last.other => last.n = 0

\* two hands of different sizes in the same category, the first losing on kickers
C21_Witness ==
    /\ last.op = "compare_hands"
    /\ last.n = -1
    /\ Len(last.cards) # Len(last.other)
    /\ evaluate_hand(last.cards).rank = evaluate_hand(last.other).rank

\* ------------------------------------------- calls on the CFR agent: AgentSpec
\* the keys the calls name: the first has rows loaded, the second is unseen
LoadedKey == "strong|preflop||30"

InfoSets == {LoadedKey, "weak|flop|c|45"}

\* the rows an agent starts with (what _load_from_db read): regret rows all
\* negative, all zero or mixed, with an empty strategy-sum row, or a strategy-sum
\* row with an all-zero regret row
RegretValues == {-1, 0, 2}

RegretVectors == {v \in [1..NUM_ACTIONS -> RegretValues] : v[5] = v[1] /\ v[6] = v[2]}

\* the strategy-sum rows an agent starts with
StrategySums == {Zeros(NUM_ACTIONS), <<3, 0, 0, 0, 0, 1>>, <<0, 0, 0, 1, 0, 0>>}

\* the lists get_action is given: the two of _process_ai_turn, a lone raise, a
\* lone all_in, a name outside the vocabulary, and no list
AvailableLists ==
    {<<"fold", "call">>, <<"fold", "check", "raise_small", "raise_big">>,
     <<"fold", "raise_small">>, <<"all_in">>, <<"bet">>, <<>>}

AgentInit ==
    /\ game = NewGame
    /\ published = {}
    /\ contributed = 0
    /\ paid = 0
    /\ payouts = 0
    /\ hands = 0
    /\ acts = 0
    /\ acted = {}
    /\ deck = NewDeck
    /\ decks = <<NewDeck, NewDeck>>
    /\ rng = 0
    /\ pc = <<"idle", "idle">>
    /\ \E regrets \in RegretVectors, sums \in StrategySums :
           /\ regrets = Zeros(NUM_ACTIONS) \/ sums = Zeros(NUM_ACTIONS)
           /\ agent = [NewAgent EXCEPT
                          !.regret_sum = DictSet(NewAgent.regret_sum, LoadedKey, regrets),
                          !.strategy_sum = DictSet(NewAgent.strategy_sum, LoadedKey, sums)]
    /\ train = NoTrain
    /\ last = Call("init", "ok")

AgentGetStrategy ==
    \E info_set \in InfoSets :
        \E r \in {get_strategy(agent, info_set)} :
            /\ agent' = r.agent
            /\ last' = [Call("get_strategy", "ok") EXCEPT
                            !.info_set = info_set, !.strategy = r.strategy,
                            !.before = agent]
            /\ UNCHANGED <<sessionVars, deck, decks, rng, pc, train>>

AgentGetAction ==
    \E info_set \in InfoSets, available_actions \in AvailableLists :
        \E action_index \in RandomChoice(ChoiceWeights(
                                get_average_strategy(agent, info_set), available_actions)) :
            \E r \in {get_action(agent, info_set, available_actions, action_index)} :
                /\ last' = [Call("get_action", "ok") EXCEPT
                                !.info_set = info_set, !.available = available_actions,
                                !.strategy = r.p, !.action = r.action,
                                !.probability = r.probability, !.before = agent]
                /\ UNCHANGED <<sessionVars, deck, decks, rng, pc, agent, train>>

AgentNext == AgentGetStrategy \/ AgentGetAction

AgentSpec == AgentInit /\ [][AgentNext]_vars

\* ------------------------------------------------------------ AgentSpec claims
\* the positive part of a regret
PositivePart(x) == IF x > 0 THEN x ELSE 0

\* the regret row get_strategy read: the stored one, zeros for an unseen key
RegretsRead(a, info_set) ==
    IF info_set \in DOMAIN a.regret_sum THEN a.regret_sum[info_set] ELSE Zeros(NUM_ACTIONS)

\* C23: get_strategy returns six nonnegative entries that sum to 1, each
\* proportional to the positive part of its regret, or all 1/6 when no regret is
\* positive; an unseen key gets zero regret and strategy-sum rows.
C23_RegretMatching ==
    last.op = "get_strategy" =>
        \A regrets \in {RegretsRead(last.before, last.info_set)} :
            /\ Len(last.strategy.num) = 6
            /\ last.strategy.den > 0
            /\ \A i \in 1..6 : last.strategy.num[i] >= 0
            /\ NpSum(last.strategy.num) = last.strategy.den
            /\ IF \E i \in 1..6 : regrets[i] > 0
               THEN \A i, j \in 1..6 :
                        last.strategy.num[i] * PositivePart(regrets[j])
                            = last.strategy.num[j] * PositivePart(regrets[i])
               ELSE \A i \in 1..6 : 6 * last.strategy.num[i] = last.strategy.den
            /\ last.info_set \notin DOMAIN last.before.regret_sum =>
                   /\ last.info_set \in DOMAIN agent.regret_sum
                   /\ last.info_set \in DOMAIN agent.strategy_sum
                   /\ agent.regret_sum[last.info_set] = <<0, 0, 0, 0, 0, 0>>
                   /\ agent.strategy_sum[last.info_set] = <<0, 0, 0, 0, 0, 0>>

\* get_strategy answered for a row with negative, zero and positive regrets
C23_Witness ==
    /\ last.op = "get_strategy"
    /\ last.info_set = LoadedKey
    /\ last.before.regret_sum[LoadedKey] = <<-1, 2, 0, 2, -1, 2>>
    /\ last.strategy = Over(<<0, 2, 0, 2, 0, 2>>, 6)

\* the name a legal-action list uses for an action of the vocabulary, and back
RaiseAlias(a) ==
    CASE a = "raise_half" -> "raise_small"
      [] a = "raise_pot" -> "raise_big"
      [] OTHER -> a

\* the actions of the vocabulary a legal-action list names
LegalSubset(available_actions) ==
    {i \in 1..6 : \E j \in 1..Len(available_actions) :
                      available_actions[j] \in {CFR_ACTIONS[i], RaiseAlias(CFR_ACTIONS[i])}}

\* the weight of the average strategy on a set of actions
RECURSIVE WeightOn(_, _, _)
WeightOn(strategy, S, n) ==
    IF n = 0 THEN 0
    ELSE (IF n \in S THEN strategy.num[n] ELSE 0) + WeightOn(strategy, S, n - 1)

\* C24: given a list that names at least one action of the vocabulary,
\* get_action returns an action the list names (raise_half for raise_small,
\* raise_pot for raise_big), drawn with probability proportional to the average
\* strategy on the named actions, and returns that action's probability under
\* the whole average strategy.
C24_ActionIsLegal ==
    (last.op = "get_action" /\ LegalSubset(last.available) # {}) =>
        \A average \in {get_average_strategy(last.before, last.info_set)} :
            \A legal \in {LegalSubset(last.available)} :
                /\ \E i \in legal : last.action = CFR_ACTIONS[i]
                /\ WeightOn(average, legal, 6) > 0 =>
                       \A i \in 1..6 :
                           last.strategy.num[i] * WeightOn(average, legal, 6)
                               = (IF i \in legal THEN average.num[i] ELSE 0)
                                     * last.strategy.den
                /\ \E i \in 1..6 :
                       /\ last.action = CFR_ACTIONS[i]
                       /\ last.probability.num * average.den
                              = average.num[i] * last.probability.den

\* C25: when the mask built from the list is zero for all six actions,
\* get_action draws each of the six actions with probability 1/6.
C25_FallbackIsUniform ==
    (/\ last.op = "get_action"
     /\ Len(last.available) > 0
     /\ NpSum(ActionMask(last.available)) = 0) =>
        \A i \in 1..6 : 6 * last.strategy.num[i] = last.strategy.den

\* ------------------------------------------------- HandSpec claims: the raise
\* C26: a raise moves call_amount + amount (call_amount = table bet - the
\* player's bet) from the player's stack to the pot, and then the table bet
\* equals the raiser's bet, which is the previous table bet plus amount.
\* Stated on the game as process_action hands it to _advance_game.
C26_RaiseMovesCallPlusAmount ==
    \A i \in 1..Len(game.players), amount \in HandAmounts :
        \A r \in {process_action(game, game.players[i].id, "raise", amount)} :
            ~r.error =>
                \A total_bet \in {(game.current_bet - game.players[i].current_bet) + amount} :
                    /\ r.before.players[i].chips = game.players[i].chips - total_bet
                    /\ r.before.pot = game.pot + total_bet
                    /\ r.before.current_bet = r.before.players[i].current_bet
                    /\ r.before.current_bet = game.current_bet + amount

\* ------------------------------------------- HandSpec claims: the seat-to-act
\* seat i can be asked to act: neither folded nor all-in
CanAct(g, i) == ~g.players[i].is_folded /\ ~g.players[i].is_all_in

\* the k-th seat after seat i, wrapping (the Len-th is seat i itself)
SeatAfter(g, i, k) == ((i - 1 + k) % Len(g.players)) + 1

\* the first seat after seat i, wrapping, that can act; 0 when no seat can
NextSeatAfter(g, i) ==
    IF \E k \in 1..Len(g.players) : CanAct(g, SeatAfter(g, i, k))
    THEN SeatAfter(g, i, CHOOSE k \in 1..Len(g.players) :
                             /\ CanAct(g, SeatAfter(g, i, k))
                             /\ \A m \in 1..(k - 1) : ~CanAct(g, SeatAfter(g, i, m)))
    ELSE 0

\* C27: after an accepted action of the seat-to-act that leaves the stage as it
\* was, the action counter is one higher and the seat-to-act is the first seat
\* after the acting one (wrapping) that is neither folded nor all-in.
C27_NextSeatToAct ==
    game.stage # "showdown" =>
        \A i \in {game.current_player_index + 1}, action \in Actions :
            \A amount \in IF action = "raise" THEN HandAmounts ELSE {0} :
                \A r \in {process_action(game, game.players[i].id, action, amount)} :
                    (~r.error /\ r.game.stage = game.stage) =>
                        /\ r.game.actions_this_round = game.actions_this_round + 1
                        /\ NextSeatAfter(r.game, i) # 0
                        /\ r.game.current_player_index + 1 = NextSeatAfter(r.game, i)

\* --------------------------------------- claims on the community cards by stage
\* the cards _next_stage deals on entering a stage
DealtOnEntering(stage) ==
    IF stage = "flop" THEN 3 ELSE IF stage \in {"turn", "river"} THEN 1 ELSE 0

\* the community-card counts a stage allows
CommunityCounts(stage) ==
    CASE stage = "preflop" -> {0}
      [] stage = "flop" -> {3}
      [] stage = "turn" -> {4}
      [] stage = "river" -> {5}
      [] OTHER -> {0, 3, 4, 5}

\* C28: when an action completes a betting round between two or more players,
\* all bets, the table bet and the action counter are 0 afterwards and 3/1/1/0
\* community cards were dealt on entering flop/turn/river/showdown; and in
\* every state the community cards number 0 in preflop, 3 in flop, 4 in turn,
\* 5 in river and 0, 3, 4 or 5 in showdown.
C28_CommunityCardsByStage ==
    /\ Len(game.community_cards) \in CommunityCounts(game.stage)
    /\ \A i \in 1..Len(game.players), action \in Actions :
           \A r \in {process_action(game, game.players[i].id, action, 0)} :
               (/\ ~r.error
                /\ r.game.stage # game.stage
                /\ Cardinality(NotFolded(r.before)) # 1) =>
                   /\ \A j \in 1..Len(r.game.players) : r.game.players[j].current_bet = 0
                   /\ r.game.current_bet = 0
                   /\ r.game.actions_this_round = 0
                   /\ Len(r.game.community_cards)
                          = Len(game.community_cards) + DealtOnEntering(r.game.stage)

\* ------------------------------------------------- a call of train: TrainSpec
\* train(iterations) for iterations in 1..MaxIterations
MaxIterations == 1

\* the record of a call of _cfr_traverse: its history and depth, and whether it
\* returned at once or expanded its node
Traversed(f, result) ==
    [Call("_cfr_traverse", result) EXCEPT !.path = f.betting_history, !.n = f.depth]

TrainInit ==
    /\ game = NewGame
    /\ published = {}
    /\ contributed = 0
    /\ paid = 0
    /\ payouts = 0
    /\ hands = 0
    /\ acts = 0
    /\ acted = {}
    /\ deck = NewDeck
    /\ decks = <<NewDeck, NewDeck>>
    /\ rng = 0
    /\ pc = <<"idle", "idle">>
    /\ agent = NewAgent
    /\ \E iterations \in 1..MaxIterations :
           train = [iterations |-> iterations, i |-> 0, stack |-> <<>>, pc |-> "loop"]
    /\ last = Call("train", "ok")

\* the loop of train calls _cfr_traverse on the empty history
TrainIterate ==
    /\ train.pc = "loop"
    /\ train.i < train.iterations
    /\ \E root \in {Frame(InitialPot, <<>>, 0, 0)} :
           IF ReturnsAtOnce(root.betting_history, root.depth)
           THEN /\ train' = [train EXCEPT !.i = @ + 1]
                /\ agent' = [agent EXCEPT !.iterations_run = @ + 1]
                /\ last' = Traversed(root, "terminal")
           ELSE /\ train' = [train EXCEPT !.stack = <<root>>, !.pc = "traverse"]
                /\ agent' = agent
                /\ last' = Traversed(root, "expanded")
    /\ UNCHANGED <<sessionVars, deck, decks, rng, pc>>

\* one pass of the loop over ACTIONS in the innermost call: fold sets a value
\* and continues; any other action calls _cfr_traverse, which returns at once
\* or expands the new node
TraverseAction ==
    /\ train.pc = "traverse"
    /\ \E f \in {train.stack[Len(train.stack)]} :
        /\ f.a_idx <= NUM_ACTIONS
        /\ IF CFR_ACTIONS[f.a_idx] = "fold"
           THEN /\ train' = [train EXCEPT !.stack[Len(train.stack)].a_idx = @ + 1]
                /\ last' = last
           ELSE \E child \in {ChildFrame(f, CFR_ACTIONS[f.a_idx])} :
                    IF ReturnsAtOnce(child.betting_history, child.depth)
                    THEN /\ train' = [train EXCEPT !.stack[Len(train.stack)].a_idx = @ + 1]
                         /\ last' = Traversed(child, "terminal")
                    ELSE /\ train' = [train EXCEPT !.stack = Append(@, child)]
                         /\ last' = Traversed(child, "expanded")
    /\ UNCHANGED <<sessionVars, deck, decks, rng, pc, agent>>

\* the loop of the innermost call is over: it returns to the loop of its
\* caller, the outermost one to train, which counts the iteration
TraverseReturn ==
    /\ train.pc = "traverse"
    /\ train.stack[Len(train.stack)].a_idx > NUM_ACTIONS
    /\ IF Len(train.stack) = 1
       THEN /\ train' = [train EXCEPT !.stack = <<>>, !.pc = "loop", !.i = @ + 1]
            /\ agent' = [agent EXCEPT !.iterations_run = @ + 1]
       ELSE /\ train' = [train EXCEPT
                            !.stack = [SubSeq(@, 1, Len(@) - 1) EXCEPT
                                          ![Len(train.stack) - 1].a_idx = @ + 1]]
            /\ agent' = agent
    /\ UNCHANGED <<sessionVars, deck, decks, rng, pc, last>>

\* after the loop train calls save_to_db, which catches what the database raises
TrainSave ==
    /\ train.pc = "loop"
    /\ train.i = train.iterations
    /\ train' = [train EXCEPT !.pc = "saved"]
    /\ last' = Call("save_to_db", "ok")
    /\ UNCHANGED <<sessionVars, deck, decks, rng, pc, agent>>

TrainNext == TrainIterate \/ TraverseAction \/ TraverseReturn \/ TrainSave

TrainSpec == TrainInit /\ [][TrainNext]_vars

\* a running call is not suspended for ever
FairTrainSpec == TrainSpec /\ WF_vars(TrainNext)

\* ------------------------------------------------------------ TrainSpec claims
\* every call of _cfr_traverse so far had depth at most 10, and every node
\* being expanded has a history of at most 8 tokens
WithinLimits ==
    /\ last.op = "_cfr_traverse" => last.n <= 10
    /\ \A k \in 1..Len(train.stack) :
           /\ train.stack[k].depth <= 10
           /\ Len(train.stack[k].betting_history) <= 8

\* train has run all its traversals and has reached its save step
TrainSaved ==
    /\ train.pc = "saved"
    /\ train.stack = <<>>
    /\ train.i = train.iterations
    /\ agent.iterations_run = train.iterations

\* C29: no call of _cfr_traverse is deeper than 10, no expanded node has a
\* history of more than 8 tokens, and train(n) ends: it runs its n traversals
\* and reaches its save step.
C29_TrainTerminates == []WithinLimits /\ <>TrainSaved

\* train has saved after a traversal that expanded a node of 8 tokens (the last
\* node a traversal expands is A A A A A A A A, ending all in terminal calls)
C29_Witness ==
    /\ TrainSaved
    /\ last.op = "save_to_db"

\* C30: a call of _cfr_traverse returns without expanding its node exactly
\* when the history has more than 8 tokens, the depth exceeds 10, the history
\* ends in a fold token, or its last two tokens are both call tokens; so a
\* history with two call tokens apart (call, raise, call) is expanded.
C30_TerminalExactly ==
    last.op = "_cfr_traverse" =>
        ((last.result = "terminal") <=>
            \/ Len(last.path) > 8
            \/ last.n > 10
            \/ (Len(last.path) >= 1 /\ last.path[Len(last.path)] = "f")
            \/ /\ Len(last.path) >= 2
               /\ last.path[Len(last.path)] = "c"
               /\ last.path[Len(last.path) - 1] = "c")

\* ------------------------------------------------ HandSpec claims: the chips
\* the chips the first n seats bring to their first hand
RECURSIVE StartTotal(_)
StartTotal(n) == IF n = 0 THEN 0 ELSE StartChips[n] + StartTotal(n - 1)

\* C31: from the end of start_hand until determine_winner is called, whatever
\* process_action calls are made, the players' chips plus the pot equal the
\* chips the players held when the hand started; and no process_action call,
\* with any action and amount, changes that sum.
C31_ChipsConserved ==
    payouts = 0 =>
        /\ SumChips(game) + game.pot = StartTotal(Len(game.players))
        /\ \A player_id \in SeatIds(game) \cup {Stranger}, action \in Actions :
               \A amount \in IF action = "raise" THEN Amounts ELSE {0} :
                   \A r \in {process_action(game, player_id, action, amount)} :
                       SumChips(r.game) + r.game.pot = SumChips(game) + game.pot

\* a short stack has raised all-in, the flop is out and nothing was paid yet
C31_Witness ==
    /\ payouts = 0
    /\ acts >= 3
    /\ game.stage = "flop"
    /\ game.pot > 30
    /\ \E i \in 1..Len(game.players) : game.players[i].is_all_in

\* C32: within a betting round no call, raise or all_in, by any player and
\* whatever the player's stack, leaves the table bet lower than it was.
C32_TableBetNeverDecreases ==
    \A i \in 1..Len(game.players), action \in {"call", "raise", "all_in"} :
        \A amount \in IF action = "raise" THEN HandAmounts ELSE {0} :
            \A r \in {process_action(game, game.players[i].id, action, amount)} :
                (~r.error /\ r.game.stage = game.stage) =>
                    r.game.current_bet >= game.current_bet

\* ------------------------------------------------- HandSpec claims: the turn
\* what an action may not touch when it is not the caller's turn
TurnState(g) ==
    [pot |-> g.pot, current_bet |-> g.current_bet,
     bets |-> [i \in 1..Len(g.players) |-> g.players[i].current_bet],
     actions_this_round |-> g.actions_this_round,
     current_player_index |-> g.current_player_index, stage |-> g.stage]

\* C33: a process_action call by a seated, non-folded player who is not the
\* seat-to-act, or who is all-in, changes neither the pot, nor a bet, nor the
\* action counter, nor the seat-to-act, nor the stage.
C33_OnlySeatToActActs ==
    \A i \in 1..Len(game.players), action \in Actions :
        \A amount \in IF action = "raise" THEN HandAmounts ELSE {0} :
            (/\ ~game.players[i].is_folded
             /\ i # game.current_player_index + 1 \/ game.players[i].is_all_in) =>
                TurnState(process_action(game, game.players[i].id, action, amount).game)
                    = TurnState(game)

\* ---------------------------------------------- HandSpec claims: the payout
\* C34: once determine_winner has credited the pot of a hand, the players hold
\* no more chips than at the start of the hand, and no further
\* determine_winner or process_action call adds chips to a player.
C34_PotPaidOnce ==
    (payouts >= 1 /\ game.stage = "showdown") =>
        /\ SumChips(game) <= StartTotal(Len(game.players))
        /\ \A i \in 1..Len(game.players) :
               determine_winner(game).game.players[i].chips <= game.players[i].chips
        /\ \A i \in 1..Len(game.players), action \in Actions :
               \A r \in {process_action(game, game.players[i].id, action, 0)} :
                   \A j \in 1..Len(game.players) :
                       r.game.players[j].chips <= game.players[j].chips

\* C35: a hand finishes without actions of all-in players: once every player
\* who has not folded is all-in, the remaining stages have been run out and
\* the stage is showdown.
C35_AllInHandRunsOut ==
    (/\ Len(game.players) >= 2
     /\ \A i \in NotFolded(game) : game.players[i].is_all_in) =>
        game.stage = "showdown"

\* ------------------------------------------------- the keys of the two tables
\* An info-set key is an f-string of four fields joined by '|'.  No field holds
\* a '|' (labels, stage names, history tokens, decimal integers), so two keys
\* are equal exactly when their fields are: a key is the record of its fields,
\* the history a sequence of tokens ('' is the empty sequence).
InfoSet(strength, stage, betting_history, pot) ==
    [strength |-> strength, stage |-> stage,
     betting_history |-> betting_history, pot |-> pot]

\* strengths are in hundredths: np.random.random() draws from [0, 1)
Strengths == {24, 25, 50, 99}

\* _categorize_strength
_categorize_strength(strength) ==
    IF strength < 25 THEN "weak"
    ELSE IF strength < 50 THEN "medium"
    ELSE IF strength < 75 THEN "strong"
    ELSE "premium"

\* the key _cfr_traverse builds for the node of frame f: the label of the
\* strength of the player to act, the stage train passes down ('preflop'), the
\* history and int(pot)
TraverseInfoSet(f, p1_strength, p2_strength) ==
    InfoSet(_categorize_strength(IF f.player_to_act = 0 THEN p1_strength
                                                          ELSE p2_strength),
            "preflop", f.betting_history, f.pot \div 256)

\* get_hand_strength_category
get_hand_strength_category(hole_cards, community_cards) ==
    IF Len(hole_cards) + Len(community_cards) < 4
    THEN LET high_ranks == {"A", "K", "Q", "J", "T"}
             ranks == [i \in 1..Len(hole_cards) |-> RankOf(hole_cards[i])]
         IN  IF \A i \in 1..Len(ranks) : ranks[i] \in high_ranks
             THEN IF Cardinality({ranks[i] : i \in 1..Len(ranks)}) = 1
                  THEN "premium"
                  ELSE "strong"
             ELSE IF \E i \in 1..Len(ranks) : ranks[i] \in high_ranks
                  THEN "medium"
                  ELSE "weak"
    ELSE "medium"

\* create_info_set; the pot is a whole number of chips
create_info_set(hole_cards, community_cards, betting_history, pot_size, stage) ==
    LET strength == get_hand_strength_category(hole_cards, community_cards)
        floored == (pot_size \div 25) * 25
        capped == IF floored < 200 THEN floored ELSE 200
        simplified_pot == IF capped > 20 THEN capped ELSE 20
    IN  InfoSet(strength, stage, betting_history, simplified_pot)

\* live decisions: the hole cards of the player (a pair, two high cards, one
\* high card, no high card), the board of each length, the pot and the stage
LiveHoleCards ==
    {<<Card("A", "s"), Card("A", "h")>>, <<Card("K", "s"), Card("T", "d")>>,
     <<Card("Q", "c"), Card("7", "h")>>, <<Card("9", "s"), Card("2", "d")>>}

LiveBoards ==
    {SubSeq(<<Card("3", "h"), Card("8", "d"), Card("J", "c"), Card("5", "s"),
              Card("6", "h")>>, 1, n) : n \in {0, 3, 4, 5}}

LivePots == 0..260

LiveStages == {"preflop", "flop", "turn", "river"}

\* the keys _process_ai_turn and get_gto_advice look up: both pass the history ''
LiveKeys ==
    {create_info_set(hole_cards, community_cards, <<>>, pot_size, stage) :
        hole_cards \in LiveHoleCards, community_cards \in LiveBoards,
        pot_size \in LivePots, stage \in LiveStages}

\* the action whose token _cfr_traverse appends to the history (check and call
\* append the same token and leave the pot alone; fold appends nothing)
TokenAction(token) ==
    CASE token = "c" -> "call"
      [] token = "r" -> "raise_half"
      [] token = "R" -> "raise_pot"
      [] OTHER -> "all_in"

\* the node _cfr_traverse expands after the tokens k.. of betting_history, from
\* the node of frame f on: none if a node on the way returns at once
RECURSIVE NodesAfter(_, _, _)
NodesAfter(f, betting_history, k) ==
    IF ReturnsAtOnce(f.betting_history, f.depth)
    THEN {}
    ELSE IF k > Len(betting_history)
         THEN {f}
         ELSE NodesAfter(ChildFrame(f, TokenAction(betting_history[k])),
                         betting_history, k + 1)

\* train(iterations) writes a row under this key: its loop runs at least once
\* and the key is that of a node a traversal expands from the root (pot 30.0,
\* history '', stage 'preflop'), for strengths it draws
TrainWrites(iterations, key) ==
    /\ iterations >= 1
    /\ key.stage = "preflop"
    /\ \A k \in 1..Len(key.betting_history) :
           key.betting_history[k] \in {"c", "r", "R", "A"}
    /\ \E f \in NodesAfter(Frame(InitialPot, <<>>, 0, 0), key.betting_history, 1) :
           \E p1_strength \in Strengths, p2_strength \in Strengths :
               TraverseInfoSet(f, p1_strength, p2_strength) = key

\* key is one of LiveKeys (the history and the stage go through create_info_set
\* as they are)
IsLiveKey(key) ==
    /\ key.betting_history = <<>>
    /\ key.stage \in LiveStages
    /\ \E hole_cards \in LiveHoleCards, community_cards \in LiveBoards :
           \E pot_size \in LivePots :
               create_info_set(hole_cards, community_cards, <<>>, pot_size,
                               key.stage) = key

\* every row a traversal of TrainSpec writes (the node on top of the stack has
\* just been expanded) has a key of TrainWrites, and none has a live key
TraversalKeys ==
    train.pc = "traverse" =>
        \A f \in {train.stack[Len(train.stack)]} :
            \A key \in {TraverseInfoSet(f, p1_strength, p2_strength) :
                            p1_strength \in Strengths, p2_strength \in Strengths} :
                /\ TrainWrites(train.iterations, key)
                /\ ~IsLiveKey(key)

\* C36: the info-set keys looked up during play are keys training can write:
\* for at least one live hand, board, pot and stage, the key create_info_set
\* builds (label, stage, empty history, the pot floored to a multiple of 25 and
\* clamped to 20..200) is a key under which the call of train writes a row.
C36_LiveKeyIsTrained ==
    \E key \in LiveKeys : TrainWrites(train.iterations, key)

====
